---- MODULE Spec2Model ----
(***************************************************************************)
(* Model of the writing-agent layout engine (engine/src/layout.rs,         *)
(* cache.rs, metrics.rs, linebreak.rs, image.rs) together with the parts   *)
(* of the document/editor model (core/src/ast.rs, editor.rs, table.rs) and *)
(* the front ends (bridge/src/lib.rs, ui/src/main.rs) that drive it.       *)
(*                                                                         *)
(* Units.  f32 quantities are modelled in exact integer arithmetic:        *)
(*   font_size            tenths of a pixel      (140 = 14.0 px)           *)
(*   line_height factor   tenths                 (16  = 1.6)               *)
(*   page_width, page_height, margin   pixels                              *)
(*   measured widths, block/page heights   hundredths of a pixel           *)
(* Floating point rounding error is outside the model.                     *)
(*                                                                         *)
(* Text.  A text is a sequence of characters; positions are byte offsets   *)
(* into its UTF-8 encoding, as in the source.  The alphabet is:            *)
(*   "a" "b"  ASCII letters           " "  ASCII space                     *)
(*   "(" ")"  ASCII brackets          "nl" the line feed character         *)
(*   "0".."9" ASCII digits            "|"  the table cell separator        *)
(*   "Z"      a CJK ideograph such as U+4E2D   (3 bytes, is_cjk)           *)
(*   "U+8FD9" and so on: the ideograph of that code point                  *)
(*   "<" ">"  the fullwidth brackets U+FF08 / U+FF09 (3 bytes, not is_cjk) *)
(* DefaultHasher values are modelled by the hashed content itself, i.e.    *)
(* 64-bit hash collisions are outside the model.                           *)
(***************************************************************************)
EXTENDS Integers, Sequences, FiniteSets, TLC

Digits == <<"0", "1", "2", "3", "4", "5", "6", "7", "8", "9">>
AsciiChars == {"a", "b", " ", "(", ")", "|", "nl"} \cup {Digits[k] : k \in 1..10}
WideChars == {"Z", "<", ">"}

Utf8Len(ch) == IF ch \in AsciiChars THEN 1 ELSE 3

RECURSIVE ByteLen(_)
ByteLen(text) == IF text = <<>> THEN 0 ELSE Utf8Len(Head(text)) + ByteLen(Tail(text))

\* byte offset of the character with (1-based) index i; ByteLen(text) for i = Len+1
OffsetOf(text, i) == ByteLen(SubSeq(text, 1, i - 1))

\* index of the character that starts at byte offset off (Len+1 for the end)
CharAt(text, off) == CHOOSE i \in 1..(Len(text) + 1) : OffsetOf(text, i) = off

\* text[from..to] for byte offsets on character boundaries
Slice(text, from, to) == SubSeq(text, CharAt(text, from), CharAt(text, to) - 1)

IsAscii(text) == \A i \in 1..Len(text) : text[i] \in AsciiChars

\* the sentence of the layout benchmark without its punctuation: sixteen
\* ideographs of the block U+4E00..U+9FFF
SampleCjk ==
    <<"U+8FD9", "U+662F", "U+4E00", "U+4E9B", "U+6D4B", "U+8BD5", "U+6587", "U+672C",
      "U+7528", "U+4E8E", "U+5E03", "U+5C40", "U+6027", "U+80FD", "U+8BC4", "U+4F30">>

is_cjk(ch) == ch = "Z" \/ \E k \in 1..Len(SampleCjk) : SampleCjk[k] = ch

IsWhitespace(ch) == ch \in {" ", "nl"}

\* a trim that removes nothing
trim_end_none(text) == text

\* a trim that also removes opening brackets from the end
RECURSIVE trim_end_openers(_)
trim_end_openers(text) ==
    IF text # <<>> /\ text[Len(text)] \in {" ", "nl", "(", "<"}
    THEN trim_end_openers(SubSeq(text, 1, Len(text) - 1))
    ELSE text

RECURSIVE trim_end(_)
trim_end(text) ==
    IF text # <<>> /\ IsWhitespace(text[Len(text)])
    THEN trim_end(SubSeq(text, 1, Len(text) - 1))
    ELSE text

(***************************************************************************)
(* metrics.rs: FontMetrics, the heuristic measurer, the two-tier glyph     *)
(* cache and the glyph-backed measurer.                                    *)
(***************************************************************************)
FontMetrics(fs, lh) == [font_size |-> fs, line_height |-> lh]

\* f32::round on a non-negative value given in tenths
RoundTenths(x) == (x + 5) \div 10

Max(a, b) == IF a >= b THEN a ELSE b

\* the concatenation of a sequence of sequences
RECURSIVE Concat(_)
Concat(seqs) == IF seqs = <<>> THEN <<>> ELSE Head(seqs) \o Concat(Tail(seqs))

\* `let v = ...;` followed by the code F that uses v
Bind(v, F(_)) == F(v)

\* a character loop that counts the ASCII characters only
SimpleCharSumAscii(text, fs) ==
    Cardinality({i \in 1..Len(text) : text[i] \in AsciiChars}) * fs * 6

RECURSIVE SimpleCharSum(_, _)
SimpleCharSum(text, fs) ==
    IF text = <<>> THEN 0
    ELSE (IF is_cjk(Head(text)) THEN fs * 10
          ELSE IF Head(text) \in AsciiChars THEN fs * 6
          ELSE fs * 7) + SimpleCharSum(Tail(text), fs)

\* the SSE2 path and the scalar path both count the ASCII bytes
measure_ascii_fast(text, fs) ==
    Cardinality({i \in 1..Len(text) : text[i] \in AsciiChars}) * fs * 6

ShortAsciiLimit == 128

SimpleMeasure(text, metrics) ==
    IF IsAscii(text) /\ ByteLen(text) < ShortAsciiLimit
    THEN ByteLen(text) * metrics.font_size * 6
    ELSE IF IsAscii(text) THEN measure_ascii_fast(text, metrics.font_size)
    ELSE SimpleCharSum(text, metrics.font_size)

\* An LruCache is a sequence of [key, val] entries, least recently used first.
LruHas(c, key) == \E i \in 1..Len(c) : c[i].key = key
LruIdx(c, key) == CHOOSE i \in 1..Len(c) : c[i].key = key
LruDrop(c, i) == SubSeq(c, 1, i - 1) \o SubSeq(c, i + 1, Len(c))
\* LruCache::get: the entry becomes the most recently used
LruGet(c, key) == LET i == LruIdx(c, key) IN Append(LruDrop(c, i), c[i])
LruVal(c, key) == c[LruIdx(c, key)].val
\* LruCache::put: replaces an entry of the same key, else evicts the least
\* recently used entry of a full cache
LruPut(c, cap, key, val) ==
    IF LruHas(c, key) THEN Append(LruDrop(c, LruIdx(c, key)), [key |-> key, val |-> val])
    ELSE IF Len(c) >= cap THEN Append(Tail(c), [key |-> key, val |-> val])
    ELSE Append(c, [key |-> key, val |-> val])

GlyphCapacity == 8192
GlyphTierMin == 64
hot_cap(capacity) == Max(Max(capacity, 1) \div 4, GlyphTierMin)

\* a - b on usize: the difference when a >= b; below that the build decides,
\* a panic with overflow checks (the dev profile) and the wrapped value
\* 2^64 - (b - a) without them (the release profile), held here as its
\* distance below 2^64
usize_sub(a, b, overflow_checks) ==
    IF a >= b THEN [kind |-> "value", n |-> a - b]
    ELSE IF overflow_checks THEN [kind |-> "panic"]
    ELSE [kind |-> "wrapped", below |-> b - a]

\* usize::max of a difference and a small bound: a wrapped difference is
\* above the bound, a panic has already left the function
usize_max(v, bound) ==
    IF v.kind = "value" THEN [kind |-> "value", n |-> Max(v.n, bound)] ELSE v

\* GlyphCache::new: the size of the cold tier
cold_cap(capacity, overflow_checks) ==
    usize_max(usize_sub(Max(capacity, 1), hot_cap(capacity), overflow_checks), GlyphTierMin)

\* the cold tier of the engine's measurer: 8192 - 2048 in either build
GlyphColdCap == cold_cap(GlyphCapacity, TRUE).n

GlyphCacheNew == [hot |-> <<>>, cold |-> <<>>, hits |-> 0, misses |-> 0]

\* fontdue's Font::metrics(ch, px): the advance width of the glyph, hundredths
FontAdvance(key) == (IF key[1] \in {" ", "nl"} THEN 3
                     ELSE IF key[1] \in AsciiChars THEN 5
                     ELSE 10) * key[2] * 10

\* a lookup that answers a hit in the cold tier with a zero advance
get_or_insert_zero_from_cold(g, key) ==
    IF LruHas(g.hot, key)
    THEN [val |-> LruVal(g.hot, key),
          g |-> [g EXCEPT !.hot = LruGet(g.hot, key), !.hits = @ + 1]]
    ELSE IF LruHas(g.cold, key)
    THEN LET val == LruVal(g.cold, key) IN
         [val |-> 0,
          g |-> [g EXCEPT !.cold = LruGet(g.cold, key),
                          !.hot = LruPut(g.hot, hot_cap(GlyphCapacity), key, val),
                          !.hits = @ + 1]]
    ELSE LET metrics == FontAdvance(key) IN
         [val |-> metrics,
          g |-> [g EXCEPT !.cold = LruPut(g.cold, GlyphColdCap, key, metrics),
                          !.misses = @ + 1]]

\* a lookup whose promotion moves the entry out of the cold tier
get_or_insert_moving(g, key, hot, cold) ==
    IF LruHas(g.hot, key)
    THEN [val |-> LruVal(g.hot, key),
          g |-> [g EXCEPT !.hot = LruGet(g.hot, key), !.hits = @ + 1]]
    ELSE IF LruHas(g.cold, key)
    THEN LET val == LruVal(g.cold, key) IN
         [val |-> val,
          g |-> [g EXCEPT !.cold = LruDrop(g.cold, LruIdx(g.cold, key)),
                          !.hot = LruPut(g.hot, hot, key, val),
                          !.hits = @ + 1]]
    ELSE LET metrics == FontAdvance(key) IN
         [val |-> metrics,
          g |-> [g EXCEPT !.cold = LruPut(g.cold, cold, key, metrics),
                          !.misses = @ + 1]]

\* GlyphCache::get_or_insert on tiers created with the capacities hot and
\* cold: [val, g]
get_or_insert_in(g, key, hot, cold) ==
    IF LruHas(g.hot, key)
    THEN [val |-> LruVal(g.hot, key),
          g |-> [g EXCEPT !.hot = LruGet(g.hot, key), !.hits = @ + 1]]
    ELSE IF LruHas(g.cold, key)
    THEN LET val == LruVal(g.cold, key) IN
         [val |-> val,
          g |-> [g EXCEPT !.cold = LruGet(g.cold, key),
                          !.hot = LruPut(g.hot, hot, key, val),
                          !.hits = @ + 1]]
    ELSE LET metrics == FontAdvance(key) IN
         [val |-> metrics,
          g |-> [g EXCEPT !.cold = LruPut(g.cold, cold, key, metrics),
                          !.misses = @ + 1]]

\* GlyphCache::get_or_insert on the cache of the engine's measurer: [val, g]
get_or_insert(g, key) ==
    get_or_insert_in(g, key, hot_cap(GlyphCapacity), GlyphColdCap)

GlyphSize(metrics) == Max(RoundTenths(metrics.font_size), 1)

\* the per-character loop of FontdueMeasurer::measure: [w, g]
RECURSIVE FontdueSum(_, _, _, _)
FontdueSum(g, text, size, acc) ==
    IF text = <<>> THEN [w |-> acc, g |-> g]
    ELSE LET m == get_or_insert(g, <<Head(text), size>>) IN
         FontdueSum(m.g, Tail(text), size, acc + Max(m.val, 0))

FontdueMeasure(g, text, metrics) ==
    IF IsAscii(text) /\ ByteLen(text) < ShortAsciiLimit
    THEN [w |-> ByteLen(text) * metrics.font_size * 6, g |-> g]
    ELSE FontdueSum(g, text, GlyphSize(metrics), 0)

\* RealMeasurer::measure on the measurer variant rl ("Simple" or "Fontdue"):
\* the measured width and the glyph cache afterwards
Measure(rl, g, text, metrics) ==
    IF rl = "Fontdue" THEN FontdueMeasure(g, text, metrics)
    ELSE [w |-> SimpleMeasure(text, metrics), g |-> g]

\* FontdueMeasurer::prewarm_chars through RealMeasurer::prewarm_chars
RECURSIVE prewarm_chars(_, _, _, _)
prewarm_chars(rl, g, chars, metrics) ==
    IF rl # "Fontdue" \/ chars = <<>> THEN g
    ELSE prewarm_chars(rl, get_or_insert(g, <<Head(chars), GlyphSize(metrics)>>).g,
                       Tail(chars), metrics)

(***************************************************************************)
(* linebreak.rs: LineBreaker::break_positions_into, i.e. the break         *)
(* opportunities of unicode_linebreak::linebreaks (UAX #14) restricted to  *)
(* the alphabet: the byte offsets before which a line may break, and the   *)
(* end of the text.                                                        *)
(***************************************************************************)
LbClass(ch) ==
    CASE ch \in {"a", "b", "|"} \cup {Digits[k] : k \in 1..10} -> "AL"  \* NU acts as AL here
      [] ch = " " -> "SP"
      [] ch = "nl" -> "LF"
      [] ch \in {"(", "<"} -> "OP"
      [] ch = ")" -> "CP"
      [] ch = ">" -> "CL"
      [] OTHER -> "ID"

\* whether UAX #14 allows (or requires) a break between characters i-1 and i
BreakBefore(text, i) ==
    LET y == LbClass(text[i])
        x == LbClass(text[i - 1])
        nonsp == {j \in 1..(i - 1) : text[j] # " "}
        j == IF nonsp = {} THEN 0 ELSE CHOOSE k \in nonsp : \A l \in nonsp : l <= k
    IN  IF x = "LF" THEN TRUE                              \* LB5
        ELSE IF y \in {"SP", "LF"} THEN FALSE              \* LB6, LB7
        ELSE IF y \in {"CL", "CP"} THEN FALSE              \* LB13
        ELSE IF j > 0 /\ LbClass(text[j]) = "OP" THEN FALSE  \* LB14
        ELSE IF x = "SP" THEN TRUE                         \* LB18
        ELSE IF x = "AL" /\ y = "AL" THEN FALSE            \* LB28
        ELSE IF x = "AL" /\ text[i] = "(" THEN FALSE       \* LB30
        ELSE IF x = "CP" /\ y = "AL" THEN FALSE            \* LB30
        ELSE TRUE                                          \* LB31

RECURSIVE BreaksFrom(_, _)
BreaksFrom(text, i) ==
    IF i > Len(text) THEN <<ByteLen(text)>>
    ELSE (IF BreakBefore(text, i) THEN <<OffsetOf(text, i)>> ELSE <<>>)
         \o BreaksFrom(text, i + 1)

break_positions(text) == IF text = <<>> THEN <<>> ELSE BreaksFrom(text, 2)

(***************************************************************************)
(* layout.rs: forbidden line start/end adjustment                          *)
(***************************************************************************)
is_forbidden_line_start(ch) == ch \in {")", ">"}
is_forbidden_line_end(ch) == ch \in {"(", "<"}

\* an adjustment that steps back over a forbidden line-end character even
\* when that character is the first of the segment
adjust_break_to_start(text, start, break_pos) ==
    IF break_pos <= start THEN break_pos
    ELSE LET hasPrev == break_pos > 0 /\ break_pos <= ByteLen(text)
             pi == CharAt(text, break_pos) - 1
             p1 == IF hasPrev /\ is_forbidden_line_end(text[pi])
                   THEN OffsetOf(text, pi) ELSE break_pos
             p2 == IF p1 < ByteLen(text)
                      /\ is_forbidden_line_start(text[CharAt(text, p1)])
                   THEN p1 + Utf8Len(text[CharAt(text, p1)]) ELSE p1
         IN  p2

adjust_break(text, start, break_pos) ==
    IF break_pos <= start THEN break_pos
    ELSE LET hasPrev == break_pos > 0 /\ break_pos <= ByteLen(text)
             pi == CharAt(text, break_pos) - 1
             p1 == IF hasPrev /\ is_forbidden_line_end(text[pi])
                      /\ OffsetOf(text, pi) > start
                   THEN OffsetOf(text, pi) ELSE break_pos
             p2 == IF p1 < ByteLen(text)
                      /\ is_forbidden_line_start(text[CharAt(text, p1)])
                   THEN p1 + Utf8Len(text[CharAt(text, p1)]) ELSE p1
         IN  p2

(***************************************************************************)
(* layout.rs: break-position caching and the text-wrap loop.               *)
(* The engine is a record [real, glyph, break_cache_short,                 *)
(* break_cache_long, last_prewarm_version, images]; break_buf and scratch  *)
(* are overwritten before every use and the hit/miss counters only feed    *)
(* the diagnostic output, so they are not part of the state.               *)
(* A layout context c is [eng, cache, has, held, par]: the engine, the     *)
(* LayoutCache passed to the call, whether one was passed                  *)
(* (Option<&mut LayoutCache>), the ids whose cached block the caller still *)
(* references, and whether the call takes the parallel path.               *)
(***************************************************************************)
EmptyMap == [k \in {} |-> <<>>]

quantize_width(width) == RoundTenths(Max(width, 0))
quantize_size(size) == Max(RoundTenths(size), 1)

\* a key that leaves the text out: every text of one width and size collides
BreakKeyWithoutText(text, width, font_size) ==
    [text_hash |-> <<>>, width_q |-> quantize_width(width),
     size_q |-> quantize_size(font_size)]

\* BreakKey { text_hash, width_q, size_q }; the hash is taken as injective
BreakKey(text, width, font_size) ==
    [text_hash |-> text, width_q |-> quantize_width(width),
     size_q |-> quantize_size(font_size)]

\* texts of at most this many bytes use the short cache (128 in the source)
ShortSpanMax == 4
\* the short cache is cleared once it holds more than this (4096 in the source)
ShortCacheLimit == 1
\* capacity of the long-span LRU (512 in the source, 256 with WA_LOW_SPEC)
LongCacheCap == 1

\* LayoutEngine::fill_break_buf: [buf, eng]
fill_break_buf(eng, text, width, font_size) ==
    LET key == BreakKey(text, width, font_size)
        short == ByteLen(text) <= ShortSpanMax
    IN  IF short /\ key \in DOMAIN eng.break_cache_short
        THEN [buf |-> eng.break_cache_short[key], eng |-> eng]
        ELSE IF ~short /\ LruHas(eng.break_cache_long, key)
        THEN [buf |-> LruVal(eng.break_cache_long, key),
              eng |-> [eng EXCEPT !.break_cache_long = LruGet(@, key)]]
        ELSE LET buf == break_positions(text) IN
             [buf |-> buf,
              eng |-> IF short
                      THEN [eng EXCEPT !.break_cache_short =
                               (key :> buf) @@
                               (IF Cardinality(DOMAIN @) > ShortCacheLimit
                                THEN EmptyMap ELSE @)]
                      ELSE [eng EXCEPT !.break_cache_long =
                               LruPut(@, LongCacheCap, key, buf)]]

\* LayoutCache::take_lines under LayoutEngine::alloc_lines; line_pool is the
\* number of recycled Vec<Line> buffers
alloc_lines(c) ==
    IF c.has /\ c.cache.line_pool > 0
    THEN [c EXCEPT !.cache.line_pool = @ - 1] ELSE c

Line(text, width) == [text |-> text, width |-> width]

InSeq(x, sq) == \E k \in 1..Len(sq) : sq[k] = x

\* one iteration of the `while let Some((pos, ch)) = iter.next()` loop of
\* wrap_text_with_pool, for the character with index i; s holds the locals
\* start, last_break (-1 for None), last_break_width, current_width, out and
\* the glyph cache g
WrapStep(text, bp, width, metrics, rl, s, i) ==
    Bind(Measure(rl, s.g, <<text[i]>>, metrics), LAMBDA m1 :
    LET pos == OffsetOf(text, i)
        atBreak == InSeq(pos, bp)
        last_break == IF atBreak THEN pos ELSE s.last_break
        last_break_width == IF atBreak THEN s.current_width ELSE s.last_break_width
        w == m1.w
        current_width == s.current_width + w
        next_pos == OffsetOf(text, i + 1)
        bp1 == IF last_break = -1 \/ last_break <= s.start THEN pos ELSE last_break
    IN  IF ~(current_width > width /\ pos > s.start)
        THEN [s EXCEPT !.last_break = last_break, !.last_break_width = last_break_width,
                       !.current_width = current_width, !.g = m1.g]
        ELSE
        Bind(adjust_break(text, s.start, bp1), LAMBDA break_pos :
        Bind(trim_end(Slice(text, s.start, break_pos)), LAMBDA slice :
        LET adjusted == break_pos # bp1
            atLast == ~adjusted /\ break_pos = last_break
            atPos == ~adjusted /\ break_pos = pos
        IN
        Bind(IF slice # <<>> /\ ~atLast /\ ~atPos
             THEN Measure(rl, m1.g, slice, metrics) ELSE [w |-> 0, g |-> m1.g], LAMBDA m2 :
        Bind(IF ~atLast /\ ~atPos
             THEN Measure(rl, m2.g, Slice(text, s.start, break_pos), metrics)
             ELSE [w |-> 0, g |-> m2.g], LAMBDA m3 :
        Bind(IF break_pos < next_pos /\ ~atLast /\ ~atPos
             THEN Measure(rl, m3.g, Slice(text, break_pos, next_pos), metrics)
             ELSE [w |-> 0, g |-> m3.g], LAMBDA m4 :
        LET slice_width == IF atLast THEN last_break_width
                           ELSE IF atPos THEN Max(current_width - w, 0)
                           ELSE m2.w
            base_width == IF atLast THEN last_break_width
                          ELSE IF atPos THEN Max(current_width - w, 0)
                          ELSE m3.w
            rest == IF ~(break_pos < next_pos) THEN 0
                    ELSE IF atLast THEN Max(current_width - base_width, 0)
                    ELSE IF atPos THEN w
                    ELSE m4.w
        IN  [start |-> break_pos, last_break |-> -1, last_break_width |-> 0,
             current_width |-> rest,
             out |-> IF slice # <<>> THEN Append(s.out, Line(slice, slice_width))
                     ELSE s.out,
             g |-> m4.g]))))))

RECURSIVE WrapLoop(_, _, _, _, _, _, _)
WrapLoop(text, bp, width, metrics, rl, s, i) ==
    \* start is a usize; reading it here evaluates the locals of an iteration
    \* before the next iteration begins
    IF s.start >= 0 /\ i <= Len(text)
    THEN WrapLoop(text, bp, width, metrics, rl,
                  WrapStep(text, bp, width, metrics, rl, s, i), i + 1)
    ELSE s

\* the wrap loop and the final slice, on break positions bp: [lines, g]
WrapWith(text, bp, width, metrics, rl, g) ==
    Bind(WrapLoop(text, bp, width, metrics, rl,
                  [start |-> 0, last_break |-> -1, last_break_width |-> 0,
                   current_width |-> 0, out |-> <<>>, g |-> g], 1), LAMBDA s :
    Bind(Slice(text, s.start, ByteLen(text)), LAMBDA raw :
    Bind(trim_end(raw), LAMBDA slice :
    Bind(IF slice # <<>> /\ Len(slice) # Len(raw)
         THEN Measure(rl, s.g, slice, metrics) ELSE [w |-> s.current_width, g |-> s.g],
         LAMBDA m :
    LET out == IF slice # <<>> THEN Append(s.out, Line(slice, m.w)) ELSE s.out
    IN  [lines |-> IF out = <<>> THEN <<Line(<<>>, 0)>> ELSE out, g |-> m.g]))))

\* LayoutEngine::wrap_text_with_pool: [lines, c]
wrap_text_with_pool(c, text, width, metrics) ==
    IF text = <<>> THEN [lines |-> <<Line(<<>>, 0)>>, c |-> c]
    ELSE Bind(fill_break_buf(c.eng, text, width, metrics.font_size), LAMBDA f :
         Bind(alloc_lines([c EXCEPT !.eng = f.eng]), LAMBDA c1 :
         Bind(WrapWith(text, f.buf, width, metrics, c1.eng.real, c1.eng.glyph), LAMBDA r :
            [lines |-> r.lines, c |-> [c1 EXCEPT !.eng.glyph = r.g]])))

(***************************************************************************)
(* ast.rs: Document, Block, Inline.  A block is a record with the fields   *)
(* of its variant and kind as the variant tag; an inline is                *)
(* [type |-> "Text" | "CodeSpan", value], [type |-> "Styled", style,       *)
(* content] or [type |-> "Link", url, text].  Option values are <<>> for   *)
(* None and <<v>> for Some(v).                                             *)
(***************************************************************************)
Text(value) == [type |-> "Text", value |-> value]

RECURSIVE join_inline(_)
join_inline(inlines) ==
    IF inlines = <<>> THEN <<>>
    ELSE LET in == Head(inlines) IN
         (CASE in.type \in {"Text", "CodeSpan"} -> in.value
            [] in.type = "Link" -> join_inline(in.text)
            [] OTHER -> join_inline(in.content))
         \o join_inline(Tail(inlines))

\* what hash_inlines feeds to the hasher (Style.strikethrough is not hashed)
RECURSIVE hash_inlines(_)
hash_inlines(inlines) ==
    <<Len(inlines)>> \o
    [k \in 1..Len(inlines) |->
        LET in == inlines[k] IN
        CASE in.type \in {"Text", "CodeSpan"} -> <<in.type, in.value>>
          [] in.type = "Styled" -> <<in.type, in.style.bold, in.style.italic,
                                     in.style.underline, hash_inlines(in.content)>>
          [] OTHER -> <<in.type, in.url, hash_inlines(in.text)>>]

hash_inlines_value(inlines) == hash_inlines(inlines)

hash_row_value(row) == <<Len(row)>> \o [k \in 1..Len(row) |-> hash_inlines(row[k].content)]

RECURSIVE hash_block(_)
hash_block(block) ==
    CASE block.kind = "Heading" -> <<block.kind, block.level, hash_inlines(block.content)>>
      [] block.kind = "Paragraph" -> <<block.kind, hash_inlines(block.content)>>
      [] block.kind = "List" ->
            <<block.kind, block.ordered, Len(block.items),
              [k \in 1..Len(block.items) |-> hash_inlines(block.items[k].content)]>>
      [] block.kind = "Quote" ->
            <<block.kind, Len(block.content),
              [k \in 1..Len(block.content) |-> hash_block(block.content[k])]>>
      [] block.kind = "Code" -> <<block.kind, block.lang, block.code>>
      [] block.kind = "Table" ->
            <<block.kind, Len(block.rows),
              [k \in 1..Len(block.rows) |-> hash_row_value(block.rows[k])]>>
      [] OTHER -> <<block.kind, block.url, block.caption, block.size>>

RECURSIVE is_effectively_dirty(_)
is_effectively_dirty(block) ==
    IF block.dirty THEN TRUE
    ELSE IF block.kind = "Quote"
    THEN \E k \in 1..Len(block.content) : is_effectively_dirty(block.content[k])
    ELSE FALSE

(***************************************************************************)
(* cache.rs: LayoutCache = [blocks, line_pool, sigs, list_item_cache,      *)
(* quote_item_cache, table_row_cache].  The maps are functions on the ids  *)
(* (or <<id, index>> pairs) they hold.  A context also carries held: the   *)
(* ids whose cached Arc<LayoutBlock> is referenced by a LayoutTree the     *)
(* caller still holds, which decides Arc::try_unwrap in recycle_block.     *)
(***************************************************************************)
LayoutCacheNew ==
    [blocks |-> EmptyMap, line_pool |-> 0, sigs |-> EmptyMap,
     list_item_cache |-> EmptyMap, quote_item_cache |-> EmptyMap,
     table_row_cache |-> EmptyMap]

\* a recycle that takes the line buffer although a tree still refers to it
recycle_block_shared(cache, id, held) == [cache EXCEPT !.line_pool = @ + 1]

\* LayoutCache::recycle_block for the block stored under id
recycle_block(cache, id, held) ==
    IF id \in held THEN cache ELSE [cache EXCEPT !.line_pool = @ + 1]

\* an insert that stores the block after its line buffer was recycled
insert_recycled(cache, id, block, held) ==
    LET c1 == IF id \in DOMAIN cache.blocks THEN recycle_block(cache, id, held) ELSE cache
    IN  [c1 EXCEPT !.blocks = (id :> [block EXCEPT !.lines = <<>>]) @@ @]

\* LayoutCache::insert
insert(cache, id, block, held) ==
    LET c1 == IF id \in DOMAIN cache.blocks THEN recycle_block(cache, id, held) ELSE cache
    IN  [c1 EXCEPT !.blocks = (id :> block) @@ @]

\* an insert that stores the block and leaves the signature as it was
insert_unsigned(cache, id, block, sig, held) == insert(cache, id, block, held)

\* LayoutCache::insert_with_sig
insert_with_sig(cache, id, block, sig, held) ==
    [insert(cache, id, block, held) EXCEPT !.sigs = (id :> sig) @@ @]

\* a clear that leaves the signatures and the sub-item entries in place
clear_blocks_only(cache, held) ==
    [cache EXCEPT !.blocks = EmptyMap,
                  !.line_pool = @ + Cardinality(DOMAIN cache.blocks \ held)]

\* LayoutCache::clear
clear(cache, held) ==
    [LayoutCacheNew EXCEPT !.line_pool =
        cache.line_pool + Cardinality(DOMAIN cache.blocks \ held)]

\* a sub-item lookup that never hits
get_item_miss(cache, which, block_id, idx, sig) == <<>>

\* get_list_item / get_quote_item / get_table_row on the map named which:
\* <<>> for None, <<lines>> for Some(lines)
get_item(cache, which, block_id, idx, sig) ==
    IF <<block_id, idx>> \in DOMAIN cache[which]
       /\ cache[which][<<block_id, idx>>].sig = sig
    THEN <<cache[which][<<block_id, idx>>].lines>> ELSE <<>>

\* put_list_item / put_quote_item / put_table_row
put_item(cache, which, block_id, idx, sig, lines) ==
    [cache EXCEPT ![which] = (<<block_id, idx>> :> [sig |-> sig, lines |-> lines]) @@ @]

(***************************************************************************)
(* layout.rs: LayoutConfig and LayoutEngine::layout_block_inner            *)
(***************************************************************************)
LayoutConfig(pw, ph, margin, metrics, paged) ==
    [page_width |-> pw, page_height |-> ph, margin |-> margin,
     metrics |-> metrics, paged |-> paged]

LayoutBlock(block_id, kind, lines, height, meta) ==
    [block_id |-> block_id, kind |-> kind, lines |-> lines,
     height |-> height, meta |-> meta]

\* a height that leaves the line_height factor out (in tenths: 10 is 1.0)
LinesHeightUnspaced(lines, metrics) == Len(lines) * metrics.font_size * 10

\* lines.len() as f32 * font_size * line_height
LinesHeight(lines, metrics) == Len(lines) * metrics.font_size * metrics.line_height

\* (idx + 1).to_string()
RECURSIVE Decimal(_)
Decimal(n) == IF n < 10 THEN <<Digits[n + 1]>>
              ELSE Decimal(n \div 10) \o <<Digits[(n % 10) + 1]>>

\* the item loop of the List arm, from the 0-based index idx: [lines, c]
RECURSIVE ListLoop(_, _, _, _, _, _)
ListLoop(c, block, idx, lines, width, metrics) ==
    IF idx >= Len(block.items) THEN [lines |-> lines, c |-> c]
    ELSE LET item == block.items[idx + 1]
             sig == hash_inlines_value(item.content)
             hit == IF c.has THEN get_item(c.cache, "list_item_cache", block.id, idx, sig)
                    ELSE <<>>
         IN  IF hit # <<>>
             THEN ListLoop(c, block, idx + 1, lines \o hit[1], width, metrics)
             ELSE Bind(wrap_text_with_pool(c, Decimal(idx + 1) \o <<" ">>
                                                \o join_inline(item.content),
                                           width, metrics), LAMBDA r :
                    ListLoop(IF c.has
                             THEN [r.c EXCEPT !.cache =
                                     put_item(@, "list_item_cache", block.id, idx, sig, r.lines)]
                             ELSE r.c,
                             block, idx + 1, lines \o r.lines, width, metrics))

\* the loop of the Quote arm over the nested blocks: [lines, c]
RECURSIVE QuoteLoop(_, _, _, _, _, _)
QuoteLoop(c, block, idx, lines, width, metrics) ==
    IF idx >= Len(block.content) THEN [lines |-> lines, c |-> c]
    ELSE LET b == block.content[idx + 1] IN
         IF b.kind # "Paragraph"
         THEN QuoteLoop(c, block, idx + 1, lines, width, metrics)
         ELSE
         LET sig == hash_inlines_value(b.content)
             hit == IF c.has THEN get_item(c.cache, "quote_item_cache", block.id, idx, sig)
                    ELSE <<>>
         IN  IF hit # <<>>
             THEN QuoteLoop(c, block, idx + 1, lines \o hit[1], width, metrics)
             ELSE Bind(wrap_text_with_pool(c, join_inline(b.content), width, metrics),
                       LAMBDA r :
                    QuoteLoop(IF c.has
                              THEN [r.c EXCEPT !.cache =
                                      put_item(@, "quote_item_cache", block.id, idx, sig,
                                               r.lines)]
                              ELSE r.c,
                              block, idx + 1, lines \o r.lines, width, metrics))

\* str::lines(): the pieces between line feeds, without a final empty piece
RECURSIVE StrLines(_, _)
StrLines(code, cur) ==
    IF code = <<>> THEN (IF cur = <<>> THEN <<>> ELSE <<cur>>)
    ELSE IF Head(code) = "nl" THEN <<cur>> \o StrLines(Tail(code), <<>>)
    ELSE StrLines(Tail(code), Append(cur, Head(code)))

\* the loop of the Code arm over the source lines ls: [lines, g]
RECURSIVE CodeLoop(_, _, _, _, _)
CodeLoop(rl, g, ls, lines, metrics) ==
    IF ls = <<>> THEN [lines |-> lines, g |-> g]
    ELSE LET m == Measure(rl, g, Head(ls), metrics) IN
         CodeLoop(rl, m.g, Tail(ls), Append(lines, Line(Head(ls), m.w)), metrics)

\* the text of a table row: the cells joined with " | "
RECURSIVE RowText(_, _)
RowText(row, idx) ==
    IF idx > Len(row) THEN <<>>
    ELSE (IF idx > 1 THEN <<" ", "|", " ">> ELSE <<>>)
         \o join_inline(row[idx].content) \o RowText(row, idx + 1)

\* the row loop of the Table arm: [lines, c]
RECURSIVE TableLoop(_, _, _, _, _)
TableLoop(c, block, ri, lines, width) ==
    IF ri >= Len(block.rows) THEN [lines |-> lines, c |-> c]
    ELSE LET row == block.rows[ri + 1]
             sig == hash_row_value(row)
             hit == IF c.has THEN get_item(c.cache, "table_row_cache", block.id, ri, sig)
                    ELSE <<>>
         IN  IF hit # <<>>
             THEN TableLoop(c, block, ri + 1, lines \o hit[1], width)
             ELSE LET row_line == Line(RowText(row, 1), width)
                      c2 == IF c.has
                            THEN [c EXCEPT !.cache =
                                    put_item(@, "table_row_cache", block.id, ri, sig, <<row_line>>)]
                            ELSE c
                  IN  TableLoop(c2, block, ri + 1, Append(lines, row_line), width)

\* ImageCache::load: every asset is 320 x 180 px
AssetWidth == 320
AssetHeight == 180

\* the sub-item cache that layout_block_inner uses for the block
sub_item_map(block) ==
    CASE block.kind = "List" -> "list_item_cache"
      [] block.kind = "Quote" -> "quote_item_cache"
      [] OTHER -> "table_row_cache"

\* per sub-item of a List, Quote or Table the signature <<sig>> under which
\* layout_block_inner looks it up, <<>> for a sub-item it does not cache
sub_item_sigs(block) ==
    CASE block.kind = "List" ->
           [k \in 1..Len(block.items) |-> <<hash_inlines_value(block.items[k].content)>>]
      [] block.kind = "Quote" ->
           [k \in 1..Len(block.content) |->
              IF block.content[k].kind = "Paragraph"
              THEN <<hash_inlines_value(block.content[k].content)>> ELSE <<>>]
      [] block.kind = "Table" ->
           [k \in 1..Len(block.rows) |-> <<hash_row_value(block.rows[k])>>]
      [] OTHER -> <<>>

\* LayoutEngine::layout_block_inner: [lb, c]
layout_block_inner(c, block, config) ==
    LET width == (config.page_width - config.margin * 2) * 100
        metrics == config.metrics
        Block(kind, lines, extra, meta, c2) ==
            [lb |-> LayoutBlock(block.id, kind, lines,
                                extra + LinesHeight(lines, metrics), meta),
             c |-> c2]
    IN  CASE block.kind \in {"Heading", "Paragraph"} ->
               Bind(wrap_text_with_pool(c, join_inline(block.content), width, metrics),
                    LAMBDA r :
                  Block(IF block.kind = "Heading" THEN <<"Heading", block.level>>
                        ELSE <<"Paragraph">>, r.lines, 0, <<>>, r.c))
          [] block.kind = "List" ->
               Bind(ListLoop(alloc_lines(c), block, 0, <<>>, width, metrics), LAMBDA r :
                  Block(<<"List">>, r.lines, 0, <<>>, r.c))
          [] block.kind = "Quote" ->
               Bind(QuoteLoop(alloc_lines(c), block, 0, <<>>, width, metrics), LAMBDA r :
                  Block(<<"Quote">>, r.lines, 0, <<>>, r.c))
          [] block.kind = "Code" ->
               Bind(alloc_lines(c), LAMBDA c1 :
               Bind(CodeLoop(c1.eng.real, c1.eng.glyph, StrLines(block.code, <<>>),
                             <<>>, metrics), LAMBDA r :
                  Block(<<"Code">>, r.lines, 0, <<>>, [c1 EXCEPT !.eng.glyph = r.g])))
          [] block.kind = "Table" ->
               Bind(TableLoop(alloc_lines(c), block, 0, <<>>, width), LAMBDA r :
                  Block(<<"Table">>, r.lines, 0,
                        <<[width |-> width, height |-> LinesHeight(r.lines, metrics)]>>,
                        r.c))
          [] OTHER ->
               LET asset_w == IF block.size # <<>> THEN Max(block.size[1].width, 1)
                              ELSE AssetWidth
                   asset_h == IF block.size # <<>> THEN Max(block.size[1].height, 1)
                              ELSE AssetHeight
               IN
               Bind(wrap_text_with_pool([c EXCEPT !.eng.images = @ \cup {block.url}],
                                        IF block.caption # <<>> THEN block.caption[1]
                                        ELSE <<"Z", "Z">>,
                                        width, metrics), LAMBDA r :
                  Block(<<"Figure">>, r.lines, asset_h * 100,
                        <<[width |-> asset_w * 100, height |-> asset_h * 100]>>, r.c))

(***************************************************************************)
(* layout.rs: glyph pre-warm, pagination, layout and layout_cached         *)
(***************************************************************************)
\* the characters of a block in the order collect_block_chars visits them
RECURSIVE BlockChars(_)
BlockChars(block) ==
    LET Cat(n, f(_)) ==
            LET RECURSIVE go(_)
                go(k) == IF k > n THEN <<>> ELSE f(k) \o go(k + 1)
            IN  go(1)
    IN  CASE block.kind \in {"Heading", "Paragraph"} -> join_inline(block.content)
          [] block.kind = "List" ->
               LET f(k) == join_inline(block.items[k].content) IN Cat(Len(block.items), f)
          [] block.kind = "Quote" ->
               LET f(k) == BlockChars(block.content[k]) IN Cat(Len(block.content), f)
          [] block.kind = "Code" -> block.code
          [] block.kind = "Table" ->
               LET f(k) == LET g(j) == join_inline(block.rows[k][j].content)
                           IN  Cat(Len(block.rows[k]), g)
               IN  Cat(Len(block.rows), f)
          [] OTHER -> IF block.caption # <<>> THEN block.caption[1] ELSE <<>>

PrewarmLimit == 512

\* collect_doc_chars: the first PrewarmLimit distinct characters of the document
RECURSIVE collect_doc_chars(_, _, _)
collect_doc_chars(blocks, pending, out) ==
    IF Len(out) >= PrewarmLimit THEN out
    ELSE IF pending # <<>>
    THEN collect_doc_chars(blocks, Tail(pending),
                           IF InSeq(Head(pending), out) THEN out
                           ELSE Append(out, Head(pending)))
    ELSE IF blocks = <<>> THEN out
    ELSE collect_doc_chars(Tail(blocks), BlockChars(Head(blocks)), out)

\* a pre-warm that runs on every call
prewarm_always(eng, d, metrics) ==
    [eng EXCEPT !.glyph = prewarm_chars(eng.real, @,
                              collect_doc_chars(d.blocks, <<>>, <<>>), metrics),
                !.last_prewarm_version = d.version]

\* LayoutEngine::prewarm_if_needed
prewarm_if_needed(eng, d, metrics) ==
    IF eng.last_prewarm_version = d.version THEN eng
    ELSE [eng EXCEPT !.glyph = prewarm_chars(eng.real, @,
                                   collect_doc_chars(d.blocks, <<>>, <<>>), metrics),
                     !.last_prewarm_version = d.version]

Page(number, blocks, height) == [number |-> number, blocks |-> blocks, height |-> height]

\* a pagination step that breaks before an oversized block even on an empty
\* page
place_block_eager(st, lb, config) ==
    LET max_height == (config.page_height - config.margin * 2) * 100
        brk == config.paged /\ st.current.height + lb.height > max_height
        pages == IF brk THEN Append(st.pages, st.current) ELSE st.pages
        cur == IF brk THEN Page(Len(pages) + 1, <<>>, 0) ELSE st.current
    IN  [pages |-> pages,
         current |-> Page(cur.number, Append(cur.blocks, lb), cur.height + lb.height)]

\* a pagination step that breaks pages whether or not config.paged is set
place_block_always_paged(st, lb, config) ==
    LET max_height == (config.page_height - config.margin * 2) * 100
        brk == st.current.height + lb.height > max_height /\ st.current.blocks # <<>>
        pages == IF brk THEN Append(st.pages, st.current) ELSE st.pages
        cur == IF brk THEN Page(Len(pages) + 1, <<>>, 0) ELSE st.current
    IN  [pages |-> pages,
         current |-> Page(cur.number, Append(cur.blocks, lb), cur.height + lb.height)]

\* a pagination step that breaks already when the block fills the page exactly
place_block_at_capacity(st, lb, config) ==
    LET max_height == (config.page_height - config.margin * 2) * 100
        brk == config.paged /\ st.current.height + lb.height >= max_height
               /\ st.current.blocks # <<>>
        pages == IF brk THEN Append(st.pages, st.current) ELSE st.pages
        cur == IF brk THEN Page(Len(pages) + 1, <<>>, 0) ELSE st.current
    IN  [pages |-> pages,
         current |-> Page(cur.number, Append(cur.blocks, lb), cur.height + lb.height)]

\* a pagination step that compares the block's height alone with the page body
place_block_needed_only(st, lb, config) ==
    LET max_height == (config.page_height - config.margin * 2) * 100
        brk == config.paged /\ lb.height > max_height /\ st.current.blocks # <<>>
        pages == IF brk THEN Append(st.pages, st.current) ELSE st.pages
        cur == IF brk THEN Page(Len(pages) + 1, <<>>, 0) ELSE st.current
    IN  [pages |-> pages,
         current |-> Page(cur.number, Append(cur.blocks, lb), cur.height + lb.height)]

\* a pagination step whose new page starts at the height of the page it
\* closes
place_block_height_kept(st, lb, config) ==
    LET max_height == (config.page_height - config.margin * 2) * 100
        brk == config.paged /\ st.current.height + lb.height > max_height
               /\ st.current.blocks # <<>>
        pages == IF brk THEN Append(st.pages, st.current) ELSE st.pages
        cur == IF brk THEN Page(Len(pages) + 1, <<>>, st.current.height) ELSE st.current
    IN  [pages |-> pages,
         current |-> Page(cur.number, Append(cur.blocks, lb), cur.height + lb.height)]

\* the pagination step for one laid-out block; st is [pages, current]
place_block(st, lb, config) ==
    LET max_height == (config.page_height - config.margin * 2) * 100
        brk == config.paged /\ st.current.height + lb.height > max_height
               /\ st.current.blocks # <<>>
        pages == IF brk THEN Append(st.pages, st.current) ELSE st.pages
        cur == IF brk THEN Page(Len(pages) + 1, <<>>, 0) ELSE st.current
    IN  [pages |-> pages,
         current |-> Page(cur.number, Append(cur.blocks, lb), cur.height + lb.height)]

PaginateStart == [pages |-> <<>>, current |-> Page(1, <<>>, 0)]

\* a tree that drops a last page without blocks
LayoutTreeTrimmed(st) ==
    [pages |-> IF st.current.blocks = <<>> THEN st.pages ELSE Append(st.pages, st.current)]

\* pages.push(current); LayoutTree { pages }
LayoutTree(st) == [pages |-> Append(st.pages, st.current)]

\* the parallel paths are taken for documents of more than this many blocks
\* (512 in the source)
ParThreshold == 1

\* LayoutWorker::layout_block for a worker created from the engine of c: the
\* worker has no break-position caches and a copy of the image cache, and
\* shares the glyph cache.  All arms but Quote repeat layout_block_inner
\* without a LayoutCache; the Quote arm wraps the nested paragraphs joined
\* by spaces.  [lb, c]
worker_layout_block(c, block, config) ==
    LET w == [eng |-> [c.eng EXCEPT !.break_cache_short = EmptyMap,
                                    !.break_cache_long = <<>>],
              cache |-> LayoutCacheNew, has |-> FALSE, held |-> {}]
        paras == SelectSeq(block.content, LAMBDA b : b.kind = "Paragraph")
        RECURSIVE Joined(_)
        Joined(k) == IF k > Len(paras) THEN <<>>
                     ELSE (IF k > 1 THEN <<" ">> ELSE <<>>)
                          \o join_inline(paras[k].content) \o Joined(k + 1)
    IN  IF block.kind = "Quote"
        THEN Bind(wrap_text_with_pool(w, Joined(1),
                                      (config.page_width - config.margin * 2) * 100,
                                      config.metrics), LAMBDA q :
               [lb |-> LayoutBlock(block.id, <<"Quote">>, q.lines,
                                   LinesHeight(q.lines, config.metrics), <<>>),
                c |-> [c EXCEPT !.eng.glyph = q.c.eng.glyph]])
        ELSE Bind(layout_block_inner(w, block, config), LAMBDA r :
               [lb |-> r.lb, c |-> [c EXCEPT !.eng.glyph = r.c.eng.glyph]])

\* LayoutEngine::layout_block (LayoutWorker::layout_block on the parallel
\* path): [lb, c]
layout_block(c, block, config) ==
    IF c.par THEN worker_layout_block(c, block, config)
    ELSE layout_block_inner(c, block, config)

\* the block loop of layout (layout_parallel and paginate_blocks when c.par)
\* from block i: [st, c]
RECURSIVE LayoutLoop(_, _, _, _, _)
LayoutLoop(c, blocks, i, st, config) ==
    IF i > Len(blocks) THEN [st |-> st, c |-> c]
    ELSE Bind(layout_block(c, blocks[i], config), LAMBDA r :
            LayoutLoop(r.c, blocks, i + 1, place_block(st, r.lb, config), config))

\* LayoutEngine::layout: [tree, eng]
layout(eng, d, config) ==
    Bind(LayoutLoop([eng |-> prewarm_if_needed(eng, d, config.metrics),
                     cache |-> LayoutCacheNew, has |-> FALSE, held |-> {},
                     par |-> eng.parallel /\ Len(d.blocks) > ParThreshold],
                    d.blocks, 1, PaginateStart, config), LAMBDA r :
       [tree |-> LayoutTree(r.st), eng |-> r.c.eng])

\* a reuse test that recomputes every effectively dirty block
cache_reuse_clean(cache, block) ==
    ~is_effectively_dirty(block) /\ block.id \in DOMAIN cache.blocks

\* a reuse test that compares the signature for clean blocks as well
cache_reuse_checked(cache, block) ==
    /\ block.id \in DOMAIN cache.blocks
    /\ block.id \in DOMAIN cache.sigs /\ cache.sigs[block.id] = hash_block(block)

\* whether layout_cached serves the block from the cache (else it recomputes)
cache_reuse(cache, block) ==
    IF is_effectively_dirty(block)
    THEN block.id \in DOMAIN cache.blocks
         /\ block.id \in DOMAIN cache.sigs /\ cache.sigs[block.id] = hash_block(block)
    ELSE block.id \in DOMAIN cache.blocks

\* one block of the loop of layout_cached (of layout_cached_parallel when
\* c.par): [lb, c]
cached_block(c, block, config) ==
    IF cache_reuse(c.cache, block) THEN [lb |-> c.cache.blocks[block.id], c |-> c]
    ELSE Bind(layout_block(c, block, config), LAMBDA r :
            [lb |-> r.lb,
             c |-> [r.c EXCEPT !.cache =
                       insert_with_sig(@, block.id, r.lb, hash_block(block), c.held)]])

RECURSIVE CachedLoop(_, _, _, _, _)
CachedLoop(c, blocks, i, st, config) ==
    IF i > Len(blocks) THEN [st |-> st, c |-> c]
    ELSE Bind(cached_block(c, blocks[i], config), LAMBDA r :
            CachedLoop(r.c, blocks, i + 1, place_block(st, r.lb, config), config))

\* LayoutEngine::layout_cached: [tree, eng, cache]
layout_cached(eng, d, config, cache, held) ==
    Bind(CachedLoop([eng |-> prewarm_if_needed(eng, d, config.metrics),
                     cache |-> cache, has |-> TRUE, held |-> held,
                     par |-> eng.parallel /\ Len(d.blocks) > ParThreshold],
                    d.blocks, 1, PaginateStart, config), LAMBDA r :
       [tree |-> LayoutTree(r.st), eng |-> r.c.eng, cache |-> r.c.cache])

(***************************************************************************)
(* history.rs and editor.rs.  An editor is [doc, selection, history]; doc  *)
(* is [version, blocks], selection is the id of the block that holds the   *)
(* focus (offsets are not read by any command) and history is              *)
(* [undo_stack, redo_stack, last_merge_at] with last_merge_at TRUE for     *)
(* Some(instant).  Uuid::new_v4() is modelled by a counter of the ids      *)
(* drawn so far; the ids of list items and nested blocks are never read    *)
(* and are 0.  A command is a record with type the variant name.           *)
(***************************************************************************)
HistoryDepth == 100

CommandHistoryNew == [undo_stack |-> <<>>, redo_stack |-> <<>>, last_merge_at |-> FALSE]

\* CommandHistory::push_undo
push_undo(h, entry) ==
    [h EXCEPT !.undo_stack = LET st == Append(@, entry) IN
                             IF Len(st) > HistoryDepth THEN Tail(st) ELSE st]

\* CommandHistory::push_entry
push_entry(h, entry) ==
    [push_undo(h, entry) EXCEPT !.redo_stack = <<>>, !.last_merge_at = FALSE]

\* CommandHistory::push_or_merge_block_change; quick tells whether the call
\* falls within MERGE_WINDOW of last_merge_at
push_or_merge_block_change(h, entry, quick) ==
    LET n == Len(h.undo_stack) IN
    IF n > 0 /\ h.undo_stack[n].type = "BlockChange"
       /\ h.undo_stack[n].block_id = entry.block_id
       /\ h.undo_stack[n].selection_after = entry.selection_before
       /\ h.last_merge_at /\ quick
    THEN [h EXCEPT !.undo_stack[n].after = entry.after,
                   !.undo_stack[n].selection_after = entry.selection_after,
                   !.redo_stack = <<>>, !.last_merge_at = TRUE]
    ELSE [push_entry(h, entry) EXCEPT !.last_merge_at = TRUE]

\* Editor::new
EditorNew(d) ==
    [doc |-> d, selection |-> IF d.blocks # <<>> THEN d.blocks[1].id ELSE 0,
     history |-> CommandHistoryNew]

BlockPos(blocks, id) ==
    IF \E i \in 1..Len(blocks) : blocks[i].id = id
    THEN CHOOSE i \in 1..Len(blocks) : blocks[i].id = id ELSE 0

\* Editor::undo (isUndo) and Editor::redo: from is the stack that is popped
undo_redo(e, isUndo) ==
    LET h == e.history
        from == IF isUndo THEN h.undo_stack ELSE h.redo_stack
    IN  IF from = <<>> THEN e
        ELSE
        LET entry == from[Len(from)]
            rest == SubSeq(from, 1, Len(from) - 1)
            h1 == IF isUndo THEN [h EXCEPT !.undo_stack = rest]
                  ELSE [h EXCEPT !.redo_stack = rest]
            Push(c) == IF isUndo THEN [h1 EXCEPT !.redo_stack = Append(@, c)]
                       ELSE push_undo(h1, c)
        IN  IF entry.type = "Snapshot"
            THEN [doc |-> entry.doc, selection |-> entry.selection,
                  history |-> Push([type |-> "Snapshot", doc |-> e.doc,
                                    selection |-> e.selection])]
            ELSE LET pos == BlockPos(e.doc.blocks, entry.block_id)
                     target == IF isUndo THEN entry.before ELSE entry.after
                 IN  [doc |-> IF pos = 0 THEN e.doc
                              ELSE [e.doc EXCEPT !.blocks[pos] = target],
                      selection |-> IF isUndo THEN entry.selection_before
                                    ELSE entry.selection_after,
                      history |-> Push([type |-> "BlockChange",
                                        block_id |-> entry.block_id,
                                        before |-> entry.after, after |-> entry.before,
                                        selection_before |-> entry.selection_after,
                                        selection_after |-> entry.selection_before])]

EmptyCell == [content |-> <<Text(<<>>)>>]

\* str::trim_start_matches("  ")
RECURSIVE trim_indent(_)
trim_indent(v) ==
    IF Len(v) >= 2 /\ v[1] = " " /\ v[2] = " " THEN trim_indent(SubSeq(v, 3, Len(v))) ELSE v

\* the block-level helpers of Editor and TableEditor, applied to one block
edit_block(b, cmd) ==
    LET textual == b.kind \in {"Paragraph", "Heading"}
        n == IF textual THEN Len(b.content) ELSE 0
        link == [type |-> "Link", url |-> cmd.url, text |-> <<Text(cmd.text)>>]
    IN  CASE cmd.type = "InsertText" ->
               IF ~textual THEN b
               ELSE IF n > 0 /\ b.content[n].type = "Text"
               THEN [b EXCEPT !.content[n].value = @ \o cmd.text, !.dirty = TRUE]
               ELSE [b EXCEPT !.content = Append(@, Text(cmd.text)), !.dirty = TRUE]
          [] cmd.type = "DeleteSelection" ->
               IF ~textual THEN b
               ELSE [b EXCEPT !.content = SubSeq(@, 1, n - 1), !.dirty = TRUE]
          [] cmd.type = "ApplyStyle" ->
               IF ~textual THEN b
               ELSE [b EXCEPT !.content = <<[type |-> "Styled", style |-> cmd.style,
                                             content |-> b.content]>>,
                              !.dirty = TRUE]
          [] cmd.type = "SetHeading" ->
               [kind |-> "Heading", id |-> b.id, level |-> cmd.level,
                content |-> IF textual THEN b.content ELSE <<Text(<<>>)>>, dirty |-> TRUE]
          [] cmd.type = "InsertLink" ->
               (CASE textual -> [b EXCEPT !.content = Append(@, link), !.dirty = TRUE]
                  [] b.kind = "List" /\ b.items # <<>> ->
                       [b EXCEPT !.items[Len(b.items)].content = Append(@, link),
                                 !.dirty = TRUE]
                  [] b.kind = "Quote" /\ b.content # <<>>
                     /\ b.content[Len(b.content)].kind = "Paragraph" ->
                       [b EXCEPT !.content[Len(b.content)].content = Append(@, link),
                                 !.content[Len(b.content)].dirty = TRUE,
                                 !.dirty = TRUE]
                  [] b.kind = "Table" /\ b.rows # <<>> /\ b.rows[Len(b.rows)] # <<>> ->
                       [b EXCEPT !.rows[Len(b.rows)][Len(b.rows[Len(b.rows)])].content =
                                     Append(@, link),
                                 !.dirty = TRUE]
                  [] OTHER -> b)
          [] cmd.type = "TableEditCell" ->
               IF b.kind = "Table" /\ cmd.row < Len(b.rows)
                  /\ cmd.col < Len(b.rows[cmd.row + 1])
               THEN [b EXCEPT !.rows[cmd.row + 1][cmd.col + 1].content = <<Text(cmd.text)>>]
               ELSE b
          [] cmd.type = "TableInsertRow" ->
               LET cols == IF b.rows # <<>> THEN Len(b.rows[1]) ELSE 1
                   idx == IF Len(b.rows) < 1 THEN Len(b.rows) ELSE 1
               IN  [b EXCEPT !.rows = SubSeq(@, 1, idx) \o <<[k \in 1..cols |-> EmptyCell]>>
                                      \o SubSeq(@, idx + 1, Len(@))]
          [] cmd.type = "TableInsertColumn" ->
               [b EXCEPT !.rows = [r \in 1..Len(@) |->
                    LET idx == IF Len(@[r]) < 1 THEN Len(@[r]) ELSE 1 IN
                    SubSeq(@[r], 1, idx) \o <<EmptyCell>> \o SubSeq(@[r], idx + 1, Len(@[r]))]]
          [] cmd.type = "TableDeleteRow" -> [b EXCEPT !.rows = IF @ = <<>> THEN @ ELSE Tail(@)]
          [] cmd.type = "TableDeleteColumn" ->
               [b EXCEPT !.rows = [r \in 1..Len(@) |->
                                     IF @[r] = <<>> THEN @[r] ELSE Tail(@[r])]]
          [] cmd.type \in {"ListIndent", "ListOutdent"} ->
               IF b.kind # "List" THEN b
               ELSE LET indent == cmd.type = "ListIndent"
                        Item(it) ==
                            IF it.content = <<>>
                            THEN (IF indent THEN [it EXCEPT !.content = <<Text(<<" ", " ">>)>>]
                                  ELSE it)
                            ELSE IF it.content[1].type = "Text"
                            THEN [it EXCEPT !.content[1].value =
                                     IF indent THEN <<" ", " ">> \o @ ELSE trim_indent(@)]
                            ELSE IF indent
                            THEN [it EXCEPT !.content = <<Text(<<" ", " ">>)>> \o @]
                            ELSE it
                    IN  [b EXCEPT !.items = [k \in 1..Len(@) |-> Item(@[k])], !.dirty = TRUE]
          [] OTHER -> b

\* Editor::execute: [e, uuids] after the command.  quick is the timing input
\* of push_or_merge_block_change.
execute(e, uuids, cmd, quick) ==
    LET blocks == e.doc.blocks
        touch(ed) == [ed EXCEPT !.doc.version = @ + 1]
        snap == [type |-> "Snapshot", doc |-> e.doc, selection |-> e.selection]
        Snapped == [e EXCEPT !.history = push_entry(@, snap)]
        \* with_block_change / with_block_change_merge
        Change(id, merge) ==
            LET pos == BlockPos(blocks, id) IN
            IF pos = 0 THEN e
            ELSE LET after == edit_block(blocks[pos], cmd)
                     entry == [type |-> "BlockChange", block_id |-> id,
                               before |-> blocks[pos], after |-> after,
                               selection_before |-> e.selection,
                               selection_after |-> e.selection]
                 IN  [e EXCEPT !.doc.blocks[pos] = after,
                               !.history = IF merge
                                           THEN push_or_merge_block_change(@, entry, quick)
                                           ELSE push_entry(@, entry)]
        Pushed(b) == [Snapped EXCEPT !.doc.blocks = Append(@, b)]
        id == uuids + 1
        focus == BlockPos(blocks, e.selection)
        tables == {i \in 1..Len(blocks) : blocks[i].kind = "Table"}
        last_table == IF tables = {} THEN 0 ELSE CHOOSE i \in tables : \A j \in tables : j <= i
        Out(ed, u) == [e |-> ed, uuids |-> u]
    IN  CASE cmd.type = "InsertText" ->
               IF cmd.text = <<>> THEN Out(e, uuids)
               ELSE Out(touch(Change(e.selection, TRUE)), uuids)
          [] cmd.type = "DeleteSelection" ->
               IF focus # 0 /\ blocks[focus].kind \in {"Paragraph", "Heading"}
                  /\ blocks[focus].content # <<>>
               THEN Out(touch(Change(e.selection, TRUE)), uuids)
               ELSE Out(e, uuids)
          [] cmd.type \in {"ApplyStyle", "SetHeading"} ->
               Out(touch(Change(e.selection, FALSE)), uuids)
          [] cmd.type = "TableEditCell" -> Out(touch(Change(cmd.block_id, FALSE)), uuids)
          [] cmd.type = "InsertList" ->
               Out(touch(Pushed([kind |-> "List", id |-> id, ordered |-> cmd.ordered,
                                 items |-> <<[content |-> <<Text(<<"Z", "Z", "Z">>)>>]>>,
                                 dirty |-> TRUE])), uuids + 2)
          [] cmd.type = "InsertQuote" ->
               Out(touch(Pushed([kind |-> "Quote", id |-> id,
                                 content |-> <<[kind |-> "Paragraph", id |-> 0,
                                                content |-> <<Text(cmd.text)>>,
                                                dirty |-> FALSE]>>,
                                 dirty |-> TRUE])), uuids + 2)
          [] cmd.type = "InsertCode" ->
               Out(touch(Pushed([kind |-> "Code", id |-> id, lang |-> cmd.lang,
                                 code |-> cmd.code, dirty |-> TRUE])), uuids + 1)
          [] cmd.type = "InsertTable" ->
               Out(touch(Pushed([kind |-> "Table", id |-> id,
                                 rows |-> [r \in 1..cmd.rows |->
                                             [k \in 1..cmd.cols |-> EmptyCell]],
                                 dirty |-> TRUE])), uuids + 1)
          [] cmd.type \in {"InsertImage", "InsertFigure"} ->
               Out(touch(Pushed([kind |-> "Figure", id |-> id, url |-> cmd.url,
                                 caption |-> IF cmd.type = "InsertImage"
                                             THEN <<(<<"Z", "Z">>)>> ELSE cmd.caption,
                                 size |-> <<>>, dirty |-> TRUE])), uuids + 1)
          [] cmd.type = "InsertLink" ->
               IF focus # 0 /\ edit_block(blocks[focus], cmd) # blocks[focus]
               THEN Out(touch([Snapped EXCEPT !.doc.blocks[focus] = edit_block(@, cmd)]),
                        uuids)
               ELSE Out(touch(Pushed([kind |-> "Paragraph", id |-> id,
                                      content |-> <<[type |-> "Link", url |-> cmd.url,
                                                     text |-> <<Text(cmd.text)>>]>>,
                                      dirty |-> TRUE])), uuids + 1)
          [] cmd.type \in {"TableInsertRow", "TableInsertColumn",
                           "TableDeleteRow", "TableDeleteColumn"} ->
               Out(touch(IF last_table = 0 THEN Snapped
                         ELSE [Snapped EXCEPT !.doc.blocks[last_table] = edit_block(@, cmd)]),
                   uuids)
          [] cmd.type \in {"ListIndent", "ListOutdent"} ->
               Out(touch(IF focus = 0 THEN Snapped
                         ELSE [Snapped EXCEPT !.doc.blocks[focus] = edit_block(@, cmd)]),
                   uuids)
          [] cmd.type = "Undo" -> Out(undo_redo(e, TRUE), uuids)
          [] OTHER -> Out(undo_redo(e, FALSE), uuids)

(***************************************************************************)
(* The state machine: an Editor, a LayoutEngine and a LayoutCache driven   *)
(* by a client of the library (the egui front end, the WASM bridge, the    *)
(* tests and benchmarks).                                                  *)
(***************************************************************************)
VARIABLES
    editor,   \* the Editor: [doc, selection, history]
    uuids,    \* how many Uuids have been drawn
    engine,   \* the LayoutEngine
    cache,    \* the LayoutCache the client passes to layout_cached
    held,     \* ids whose cached Arc<LayoutBlock> the client's LayoutTree shares
    tree,     \* <<t>> when the last operation was a layout call that returned
              \* the LayoutTree t, else <<>>
    op,       \* the last operation: [name, config, reused, item_hits]; reused
              \* are the ids of the blocks that layout_cached took from the
              \* cache, item_hits the <<id, index>> of the sub-items it took
    warm,     \* the layout_cached calls on this cache: [state, config, edited]
              \* with state "cold" before the first, "pure" while all of them
              \* passed config, else "mixed"; edited tells whether the
              \* document content changed since the first
    probe     \* a wrap loop or an adjust_break call followed on its own: the
              \* arguments and the locals, <<>> when none is followed

vars == <<editor, uuids, engine, cache, held, tree, op, warm, probe>>

\* LayoutEngine::new with the measurer variant rl that RealMeasurer::new()
\* found; par tells whether the parallel feature is built in and enabled
\* by WA_LAYOUT_PAR=1
LayoutEngineNew(rl, par) ==
    [real |-> rl, glyph |-> GlyphCacheNew, break_cache_short |-> EmptyMap,
     break_cache_long |-> <<>>, last_prewarm_version |-> 0, images |-> {},
     parallel |-> par]

\* LayoutConfig::default(): A4 at 96 dpi, margin 64, FontMetrics 14.0 / 1.6
DefaultConfig == LayoutConfig(794, 1123, 64, FontMetrics(140, 16), TRUE)

\* configurations of the model: the text area is 28 px (two ideographs) or
\* 42 px (three) wide, a page body of 45 px holds two lines of 22.4 px
Configs ==
    {[DefaultConfig EXCEPT !.page_width = 156, !.page_height = 173],
     [DefaultConfig EXCEPT !.page_width = 170, !.page_height = 173,
                           !.metrics = FontMetrics(140, 17), !.paged = FALSE]}

\* the widths passed to WasmEditor::layout
WasmWidths == {156, 170}

\* documents the editor is created on (Document::new() is the empty one)
SampleDocs ==
    LET T(str) == <<Text(str)>>
        P(id, str, d) == [kind |-> "Paragraph", id |-> id, content |-> T(str), dirty |-> d]
        Z3 == <<"Z", "Z", "Z">>
    IN  {<<>>,
         <<[kind |-> "Heading", id |-> 1, level |-> 1,
            content |-> T(<<"a", " ", "a", "b">>), dirty |-> FALSE],
           P(2, <<"a", "a", "a", "b">>, FALSE)>>,
         <<[kind |-> "List", id |-> 1, ordered |-> TRUE,
            items |-> <<[content |-> T(Z3)], [content |-> T(<<"a">>)]>>, dirty |-> TRUE],
           [kind |-> "Table", id |-> 2,
            rows |-> <<<<[content |-> T(<<"a">>)], [content |-> T(<<"b">>)]>>,
                       <<[content |-> T(<<"Z">>)], EmptyCell>>>>,
            dirty |-> TRUE]>>,
         <<[kind |-> "Quote", id |-> 1,
            content |-> <<P(0, Z3, FALSE),
                          [kind |-> "Code", id |-> 0, lang |-> "rs", code |-> <<"a">>,
                           dirty |-> FALSE],
                          P(0, <<"a">>, FALSE)>>,
            dirty |-> FALSE],
           [kind |-> "Code", id |-> 2, lang |-> "rs", code |-> <<"a", "nl", "b", "b">>,
            dirty |-> TRUE]>>,
         <<[kind |-> "Figure", id |-> 1, url |-> "u", caption |-> <<>>, size |-> <<>>,
            dirty |-> FALSE],
           [kind |-> "Figure", id |-> 2, url |-> "v", caption |-> <<Z3>>,
            size |-> <<[width |-> 20, height |-> 0]>>, dirty |-> TRUE]>>}

\* the editor commands the client issues
Commands ==
    {[type |-> "InsertText", text |-> <<"Z">>],
     [type |-> "InsertLink", url |-> "u", text |-> <<"Z">>],
     [type |-> "TableEditCell", block_id |-> 2, row |-> 0, col |-> 0, text |-> <<"Z">>],
     [type |-> "Undo"]}

MaxVersion == 2
\* the glyph cache counts at most this many lookups (hits plus misses)
MaxGlyphLookups == 40
MaxUuids == 3

Warm(state, config, edited) == [state |-> state, config |-> config, edited |-> edited]

Idle == [name |-> "idle", config |-> DefaultConfig, reused |-> {}, item_hits |-> {}]

Init ==
    /\ \E blocks \in SampleDocs :
         /\ editor = EditorNew([version |-> 1, blocks |-> blocks])
         /\ uuids = Len(blocks)
    /\ engine = LayoutEngineNew("Simple", FALSE)
    /\ cache = LayoutCacheNew
    /\ held = {}
    /\ tree = <<>>
    /\ op = Idle
    /\ warm = Warm("cold", DefaultConfig, FALSE)
    /\ probe = <<>>

\* Editor::execute(cmd)
Execute(cmd, quick) ==
    \E r \in {execute(editor, uuids, cmd, quick)} :
    /\ r.e.doc.version <= MaxVersion
    /\ r.uuids <= MaxUuids
    /\ editor' = r.e
    /\ uuids' = r.uuids
    /\ op' = Idle
    /\ tree' = <<>>
    /\ warm' = [warm EXCEPT !.edited = @ \/ (warm.state # "cold"
                                             /\ r.e.doc.blocks # editor.doc.blocks)]
    /\ UNCHANGED <<engine, cache, held, probe>>

\* Document::clear_dirty on the blocks of a document
clear_dirty(blocks) ==
    [i \in 1..Len(blocks) |->
       IF blocks[i].kind = "Quote"
       THEN [blocks[i] EXCEPT !.dirty = FALSE,
                              !.content = [k \in 1..Len(@) |-> [@[k] EXCEPT !.dirty = FALSE]]]
       ELSE [blocks[i] EXCEPT !.dirty = FALSE]]

\* Document::clear_dirty, which the egui front end calls after a layout pass
ClearDirty ==
    /\ editor' = [editor EXCEPT !.doc.blocks = clear_dirty(@)]
    /\ op' = Idle
    /\ tree' = <<>>
    /\ UNCHANGED <<uuids, engine, cache, held, warm, probe>>

\* LayoutEngine::layout(&doc, &config); the client drops its previous tree
Layout(config) ==
    \E r \in {layout(engine, editor.doc, config)} :
    /\ r.eng.glyph.hits + r.eng.glyph.misses <= MaxGlyphLookups
    /\ engine' = r.eng
    /\ tree' = <<r.tree>>
    /\ held' = {}
    /\ op' = [name |-> "layout", config |-> config, reused |-> {}, item_hits |-> {}]
    /\ UNCHANGED <<editor, uuids, cache, warm, probe>>

\* a layout_cached call by a client that keeps the returned tree or drops it
CachedCall(name, config, keep) ==
    \E r \in {layout_cached(engine, editor.doc, config, cache, held)} :
    LET d == editor.doc
        ids == {d.blocks[i].id : i \in 1..Len(d.blocks)}
        fresh == {i \in 1..Len(d.blocks) : ~cache_reuse(cache, d.blocks[i])}
        par == engine.parallel /\ Len(d.blocks) > ParThreshold
    IN  /\ r.eng.glyph.hits + r.eng.glyph.misses <= MaxGlyphLookups
        /\ engine' = r.eng
        /\ cache' = r.cache
        /\ tree' = <<r.tree>>
        /\ held' = IF keep THEN ids ELSE {}
        /\ op' = [name |-> name, config |-> config,
                  reused |-> {d.blocks[i].id : i \in (1..Len(d.blocks)) \ fresh},
                  item_hits |-> IF par THEN {} ELSE UNION {
                      {<<d.blocks[i].id, j - 1>> : j \in
                         {k \in 1..Len(sub_item_sigs(d.blocks[i])) :
                            /\ sub_item_sigs(d.blocks[i])[k] # <<>>
                            /\ get_item(cache, sub_item_map(d.blocks[i]), d.blocks[i].id,
                                        k - 1, sub_item_sigs(d.blocks[i])[k][1]) # <<>>}}
                      : i \in fresh}]
        /\ warm' = IF warm.state = "cold" \/ (warm.state = "pure" /\ warm.config = config)
                   THEN Warm("pure", config, warm.edited)
                   ELSE Warm("mixed", DefaultConfig, warm.edited)
        /\ UNCHANGED <<editor, uuids, probe>>

\* LayoutEngine::layout_cached(&doc, &config, &mut cache), the tree is kept
LayoutCached(config) == CachedCall("layout_cached", config, TRUE)

\* WasmEditor::layout(width)
WasmLayout(width) ==
    CachedCall("wasm_layout", [DefaultConfig EXCEPT !.page_width = width], FALSE)

Next ==
    \/ \E cmd \in Commands, quick \in BOOLEAN : Execute(cmd, quick)
    \/ ClearDirty
    \/ \E config \in Configs : LayoutCached(config)
    \/ \E width \in WasmWidths : WasmLayout(width)

Spec == Init /\ [][Next]_vars

(***************************************************************************)
(* The engine under either measurer and with the parallel paths: the       *)
(* client calls layout and layout_cached and types into the first block.   *)
(* The worker fan-out is taken in document order; it is enabled only with  *)
(* the heuristic measurer, whose workers share no state.                   *)
(***************************************************************************)
InitEngine ==
    /\ \E blocks \in SampleDocs :
         /\ editor = EditorNew([version |-> 1, blocks |-> blocks])
         /\ uuids = Len(blocks)
    /\ engine \in {LayoutEngineNew("Simple", FALSE), LayoutEngineNew("Simple", TRUE),
                   LayoutEngineNew("Fontdue", FALSE)}
    /\ cache = LayoutCacheNew
    /\ held = {}
    /\ tree = <<>>
    /\ op = Idle
    /\ warm = Warm("cold", DefaultConfig, FALSE)
    /\ probe = <<>>

NextEngine ==
    \/ \E quick \in BOOLEAN : Execute([type |-> "InsertText", text |-> <<"Z">>], quick)
    \/ \E config \in Configs : Layout(config)
    \/ \E config \in Configs : LayoutCached(config)

SpecEngine == InitEngine /\ [][NextEngine]_vars

(***************************************************************************)
(* Pagination: documents of Code blocks of zero to MaxCodeLines lines,     *)
(* laid out by layout and layout_cached at 10 px / 1.5, i.e. 15 px per     *)
(* line, on a page body of 45 px (three lines), paged and unpaged.         *)
(***************************************************************************)
MaxCodeLines == 4
MaxPageBlocks == 4

\* a source text of n lines
RECURSIVE CodeOfLines(_)
CodeOfLines(n) ==
    IF n = 0 THEN <<>>
    ELSE IF n = 1 THEN <<"a">>
    ELSE CodeOfLines(n - 1) \o <<"nl", "a">>

PageConfigs ==
    {[DefaultConfig EXCEPT !.page_width = 170, !.page_height = 173,
                           !.metrics = FontMetrics(100, 15), !.paged = p] : p \in BOOLEAN}

InitPages ==
    /\ \E n \in 0..MaxPageBlocks : \E counts \in [1..n -> 0..MaxCodeLines] :
         /\ editor = EditorNew([version |-> 1, blocks |-> [i \in 1..n |->
                [kind |-> "Code", id |-> i, lang |-> "rs",
                 code |-> CodeOfLines(counts[i]), dirty |-> FALSE]]])
         /\ uuids = n
    /\ engine \in {LayoutEngineNew("Simple", FALSE), LayoutEngineNew("Simple", TRUE)}
    /\ cache = LayoutCacheNew
    /\ held = {}
    /\ tree = <<>>
    /\ op = Idle
    /\ warm = Warm("cold", DefaultConfig, FALSE)
    /\ probe = <<>>

NextPages ==
    \/ \E config \in PageConfigs : Layout(config)
    \/ \E config \in PageConfigs : LayoutCached(config)

SpecPages == InitPages /\ [][NextPages]_vars

(***************************************************************************)
(* Text wrapping: a document of one Paragraph whose text is any text of up *)
(* to MaxTextLen characters over WrapChars, or SampleCjk, laid out by      *)
(* layout at 14 px font size on the widths of WrapConfigs under either     *)
(* measurer.                                                               *)
(***************************************************************************)
MaxTextLen == 4

WrapChars == {"a", " ", "(", ")", "Z", "<", ">"}

WrapTexts == UNION {[1..n -> WrapChars] : n \in 0..MaxTextLen}

InitWrap ==
    /\ \E text \in WrapTexts \cup {SampleCjk} :
         editor = EditorNew([version |-> 1, blocks |->
                    <<[kind |-> "Paragraph", id |-> 1, content |-> <<Text(text)>>,
                       dirty |-> TRUE]>>])
    /\ uuids = 1
    /\ engine \in {LayoutEngineNew("Simple", FALSE), LayoutEngineNew("Fontdue", FALSE)}
    /\ cache = LayoutCacheNew
    /\ held = {}
    /\ tree = <<>>
    /\ op = Idle
    /\ warm = Warm("cold", DefaultConfig, FALSE)
    /\ probe = <<>>

\* available widths of 14 px (one ideograph), 28 px and 100 px
WrapConfigs ==
    {[DefaultConfig EXCEPT !.page_width = w, !.page_height = 173] : w \in {142, 156, 228}}

\* layout is called repeatedly (the later calls find the break positions in
\* the break cache); with the glyph measurer, whose cache counters only grow,
\* it is called once
NextWrap ==
    \E config \in WrapConfigs :
       /\ engine.real = "Fontdue" => tree = <<>>
       /\ Layout(config)

SpecWrap == InitWrap /\ [][NextWrap]_vars

(***************************************************************************)
(* Code blocks: a document of a Code block whose code is any text of up to *)
(* MaxCodeLen characters over CodeChars, followed by a Code block of one   *)
(* line, laid out by layout on the widths of WrapConfigs by the engine,    *)
(* by its workers and under the glyph measurer.                            *)
(***************************************************************************)
MaxCodeLen == 4

CodeChars == {"a", " ", "nl", "Z"}

InitCode ==
    /\ \E n \in 0..MaxCodeLen : \E code \in [1..n -> CodeChars] :
         editor = EditorNew([version |-> 1, blocks |->
                    <<[kind |-> "Code", id |-> 1, lang |-> "rs", code |-> code,
                       dirty |-> TRUE],
                      [kind |-> "Code", id |-> 2, lang |-> "rs", code |-> <<"a">>,
                       dirty |-> TRUE]>>])
    /\ uuids = 2
    /\ engine \in {LayoutEngineNew("Simple", FALSE), LayoutEngineNew("Simple", TRUE),
                   LayoutEngineNew("Fontdue", FALSE)}
    /\ cache = LayoutCacheNew
    /\ held = {}
    /\ tree = <<>>
    /\ op = Idle
    /\ warm = Warm("cold", DefaultConfig, FALSE)
    /\ probe = <<>>

NextCode ==
    \E config \in WrapConfigs :
       /\ engine.real = "Fontdue" => tree = <<>>
       /\ Layout(config)

SpecCode == InitCode /\ [][NextCode]_vars

(***************************************************************************)
(* adjust_break on its own: any text of WrapTexts, any segment start and   *)
(* any candidate break position on a character boundary of the text.       *)
(***************************************************************************)
\* the state of a program that only follows a call in probe
NoEditor ==
    /\ editor = EditorNew([version |-> 1, blocks |-> <<>>])
    /\ uuids = 0
    /\ engine = LayoutEngineNew("Simple", FALSE)
    /\ cache = LayoutCacheNew
    /\ held = {}
    /\ tree = <<>>
    /\ op = Idle
    /\ warm = Warm("cold", DefaultConfig, FALSE)

\* the byte offsets of the character boundaries of a text
Boundaries(text) == {OffsetOf(text, i) : i \in 1..(Len(text) + 1)}

InitAdjust ==
    /\ NoEditor
    /\ \E text \in WrapTexts : probe = [text |-> text, calls |-> <<>>]

\* adjust_break(text, start, break_pos); calls is the call and its result
AdjustBreak(start, break_pos) ==
    /\ probe' = [probe EXCEPT !.calls =
                   <<[start |-> start, break_pos |-> break_pos,
                      result |-> adjust_break(probe.text, start, break_pos)]>>]
    /\ UNCHANGED <<editor, uuids, engine, cache, held, tree, op, warm>>

NextAdjust ==
    \E start \in Boundaries(probe.text), break_pos \in Boundaries(probe.text) :
       AdjustBreak(start, break_pos)

SpecAdjust == InitAdjust /\ [][NextAdjust]_vars

(***************************************************************************)
(* The wrap loop of wrap_text_with_pool, one iteration per step, on any    *)
(* non-empty text of WrapTexts at widths of 14 and 28 px, 14 px font       *)
(* size, under either measurer.  probe is <<>> before the call and then    *)
(* holds text, width, the measurer variant real, the index i of the        *)
(* character iter.next() yields next and the locals s.                     *)
(***************************************************************************)
WrapWidths == {1400, 2800}

InitWrapLoop == NoEditor /\ probe = <<>>

\* the call reaches the loop: the locals as initialised before it
WrapBegin(text, width, rl) ==
    /\ probe = <<>>
    /\ probe' = [text |-> text, width |-> width, real |-> rl, i |-> 1,
                 s |-> [start |-> 0, last_break |-> -1, last_break_width |-> 0,
                        current_width |-> 0, out |-> <<>>, g |-> GlyphCacheNew]]
    /\ UNCHANGED <<editor, uuids, engine, cache, held, tree, op, warm>>

\* one iteration of `while let Some((pos, ch)) = iter.next()`
WrapIter ==
    /\ probe # <<>>
    /\ probe.i <= Len(probe.text)
    /\ \E s \in {WrapStep(probe.text, break_positions(probe.text), probe.width,
                           DefaultConfig.metrics, probe.real, probe.s, probe.i)} :
         probe' = [probe EXCEPT !.s = s, !.i = @ + 1]
    /\ UNCHANGED <<editor, uuids, engine, cache, held, tree, op, warm>>

NextWrapLoop ==
    \/ \E text \in WrapTexts \ {<<>>}, width \in WrapWidths, rl \in {"Simple", "Fontdue"} :
          WrapBegin(text, width, rl)
    \/ WrapIter

SpecWrapLoop == InitWrapLoop /\ [][NextWrapLoop]_vars

\* whether the loop has another character to read; WrapIter is enabled
\* exactly then
WrapRunning == probe # <<>> /\ probe.i <= Len(probe.text)

\* the loop runs in one thread that is not suspended for ever: weak fairness
\* WF_vars(WrapIter), with ENABLED <<WrapIter>>_vars written as WrapRunning
FairWrapLoop == SpecWrapLoop /\ ([]<>(~WrapRunning) \/ []<><<WrapIter>>_vars)

(***************************************************************************)
(* GlyphCache::new as FontdueMeasurer::new reaches it: a caller picks the  *)
(* capacity, the build picks whether usize arithmetic is checked, and the  *)
(* constructor computes the sizes of the two tiers.                        *)
(***************************************************************************)
MaxGlyphCapacity == 300
GlyphCapacities == 0..MaxGlyphCapacity \cup {2048, GlyphCapacity}

\* GlyphCache::new: a panic, or the empty cache with its two tier sizes
GlyphCacheSized(capacity, overflow_checks) ==
    LET cold == cold_cap(capacity, overflow_checks) IN
    IF cold.kind = "panic" THEN [kind |-> "panic"]
    ELSE [kind |-> "cache", hot_cap |-> hot_cap(capacity), cold_cap |-> cold,
          g |-> GlyphCacheNew]

InitGlyphNew ==
    /\ NoEditor
    /\ probe \in [capacity : GlyphCapacities, overflow_checks : BOOLEAN, made : {<<>>}]

\* FontdueMeasurer::new(font, cache_capacity)
FontdueMeasurerNew ==
    /\ probe.made = <<>>
    /\ probe' = [probe EXCEPT
                   !.made = <<GlyphCacheSized(probe.capacity, probe.overflow_checks)>>]
    /\ UNCHANGED <<editor, uuids, engine, cache, held, tree, op, warm>>

NextGlyphNew == FontdueMeasurerNew

SpecGlyphNew == InitGlyphNew /\ [][NextGlyphNew]_vars

(***************************************************************************)
(* The glyph cache on its own: lookups of characters at font sizes, in any *)
(* order, on a cache whose tiers hold SmallHot and SmallCold entries (the  *)
(* source's tiers hold at least 64).  probe holds the cache g and the log  *)
(* of the lookups made: the key and whether the lookup missed.             *)
(***************************************************************************)
SmallHot == 1
SmallCold == 3
MaxLookups == 5

GlyphChars == {"Z", "<"}
\* font sizes in tenths: 14.0 and 14.4 round to the same size
GlyphSizes == {140, 144, 150}

InitGlyph == NoEditor /\ probe = [g |-> GlyphCacheNew, log |-> <<>>]

\* cache.get_or_insert(GlyphKey { ch, size }, &font) as measure and
\* prewarm_chars call it for the character ch at font_size
GlyphLookup(ch, font_size) ==
    LET key == <<ch, GlyphSize(FontMetrics(font_size, 16))>> IN
    /\ Len(probe.log) < MaxLookups
    /\ \E r \in {get_or_insert_in(probe.g, key, SmallHot, SmallCold)} :
         probe' = [g |-> r.g,
                   log |-> Append(probe.log,
                                  [key |-> key, miss |-> r.g.misses > probe.g.misses])]
    /\ UNCHANGED <<editor, uuids, engine, cache, held, tree, op, warm>>

NextGlyph == \E ch \in GlyphChars, font_size \in GlyphSizes : GlyphLookup(ch, font_size)

SpecGlyph == InitGlyph /\ [][NextGlyph]_vars

(***************************************************************************)
(* render_cache.rs: RenderCache = [dirty_blocks, dirty_threshold], the     *)
(* threshold in hundredths.  A ratio is kept as the pair of its numerator  *)
(* and denominator.  A client marks blocks dirty, clears, and asks         *)
(* should_render for a block id and a block count; probe holds the         *)
(* RenderCache rc and, after a should_render call, the call and its        *)
(* result.                                                                 *)
(***************************************************************************)
RenderCacheNew == [dirty_blocks |-> {}, dirty_threshold |-> 5]

\* RenderCache::dirty_ratio
dirty_ratio(rc, total_blocks) ==
    IF total_blocks = 0 THEN [num |-> 0, den |-> 1]
    ELSE [num |-> Cardinality(rc.dirty_blocks), den |-> total_blocks]

\* RenderCache::is_dirty
is_dirty(rc, id) == id \in rc.dirty_blocks

\* a should_render that tracks precisely: dirty blocks only
should_render_dirty_only(rc, id, total_blocks) == is_dirty(rc, id)

\* a should_render that skips clean blocks only below the threshold
should_render_below_only(rc, id, total_blocks) ==
    LET ratio == dirty_ratio(rc, total_blocks) IN
    IF ratio.num = 0 THEN TRUE
    ELSE IF ratio.num * 100 < rc.dirty_threshold * ratio.den THEN is_dirty(rc, id)
    ELSE TRUE

\* RenderCache::should_render
should_render(rc, id, total_blocks) ==
    LET ratio == dirty_ratio(rc, total_blocks) IN
    IF ratio.num = 0 THEN TRUE
    ELSE IF ratio.num * 100 <= rc.dirty_threshold * ratio.den THEN is_dirty(rc, id)
    ELSE TRUE

MaxRenderIds == 3
\* block counts around the multiples of 20, where 1, 2 and 3 dirty blocks
\* are 5% of the blocks
RenderTotals == {0, 1, 19, 20, 21, 39, 40, 41, 60, 61}

InitRender == NoEditor /\ probe = [rc |-> RenderCacheNew, call |-> <<>>]

\* RenderCache::mark_dirty
MarkDirty(id) ==
    /\ probe' = [rc |-> [probe.rc EXCEPT !.dirty_blocks = @ \cup {id}], call |-> <<>>]
    /\ UNCHANGED <<editor, uuids, engine, cache, held, tree, op, warm>>

\* RenderCache::clear
RenderClear ==
    /\ probe' = [rc |-> [probe.rc EXCEPT !.dirty_blocks = {}], call |-> <<>>]
    /\ UNCHANGED <<editor, uuids, engine, cache, held, tree, op, warm>>

\* render_cache.should_render(id, total_blocks)
ShouldRender(id, total_blocks) ==
    /\ probe' = [probe EXCEPT !.call =
                   <<[id |-> id, total_blocks |-> total_blocks,
                      result |-> should_render(probe.rc, id, total_blocks)]>>]
    /\ UNCHANGED <<editor, uuids, engine, cache, held, tree, op, warm>>

NextRender ==
    \/ \E id \in 1..MaxRenderIds : MarkDirty(id)
    \/ RenderClear
    \/ \E id \in 1..MaxRenderIds, total_blocks \in RenderTotals :
          ShouldRender(id, total_blocks)

SpecRender == InitRender /\ [][NextRender]_vars

(***************************************************************************)
(* hittest.rs: HitTester::hit_test.  x, y and page_gap are in hundredths   *)
(* of a pixel.  The tester measures one character at a time with its own   *)
(* RealMeasurer; the advance a lookup returns does not depend on the state *)
(* of its glyph cache, which is therefore not kept.  The result is <<>>    *)
(* for None and <<[block_id, offset]>> for Some(Position).                 *)
(***************************************************************************)
\* the `for ch in line.text.chars()` loop from the character with index i
RECURSIVE HitOffset(_, _, _, _, _, _)
HitOffset(text, i, acc, x, config, rl) ==
    IF i > Len(text) THEN i - 1
    ELSE Bind(Measure(rl, GlyphCacheNew, <<text[i]>>, config.metrics).w, LAMBDA w :
           IF config.margin * 100 + acc + w >= x THEN i - 1
           ELSE HitOffset(text, i + 1, acc + w, x, config, rl))

\* the `for line in &block.lines` loop from line j: [pos, cursor_y]
RECURSIVE HitLine(_, _, _, _, _, _, _)
HitLine(block, j, cursor_y, config, x, y, rl) ==
    LET line_height == config.metrics.font_size * config.metrics.line_height IN
    IF j > Len(block.lines) THEN [pos |-> <<>>, cursor_y |-> cursor_y]
    ELSE IF y >= cursor_y /\ y <= cursor_y + line_height
    THEN [pos |-> <<[block_id |-> block.block_id,
                     offset |-> HitOffset(block.lines[j].text, 1, 0, x, config, rl)]>>,
          cursor_y |-> cursor_y]
    ELSE HitLine(block, j + 1, cursor_y + line_height, config, x, y, rl)

\* the `for block in &page.blocks` loop from block b
RECURSIVE HitBlock(_, _, _, _, _, _, _)
HitBlock(page, b, cursor_y, config, x, y, rl) ==
    IF b > Len(page.blocks) THEN <<>>
    ELSE Bind(HitLine(page.blocks[b], 1, cursor_y, config, x, y, rl), LAMBDA r :
           IF r.pos # <<>> THEN r.pos
           ELSE HitBlock(page, b + 1, r.cursor_y + config.metrics.font_size * 5,
                         config, x, y, rl))

\* the `for page in &layout.pages` loop from page p
RECURSIVE HitPage(_, _, _, _, _, _, _, _)
HitPage(tr, p, page_top, config, x, y, page_gap, rl) ==
    IF p > Len(tr.pages) THEN <<>>
    ELSE LET page_bottom == page_top + config.page_height * 100 IN
         Bind(IF y >= page_top /\ y <= page_bottom
              THEN HitBlock(tr.pages[p], 1, page_top + config.margin * 100,
                            config, x, y, rl)
              ELSE <<>>, LAMBDA r :
           IF r # <<>> THEN r
           ELSE HitPage(tr, p + 1, page_bottom + page_gap, config, x, y, page_gap, rl))

\* HitTester::hit_test
hit_test(tr, config, x, y, page_gap, rl) ==
    HitPage(tr, 1, 0, config, x, y, page_gap, rl)

(***************************************************************************)
(* Hit testing: a client lays out a document of two short paragraphs or of *)
(* one paragraph of six words on the widths of WrapConfigs, whose page of  *)
(* 173 px has room for four lines below the top margin, and points into    *)
(* the tree.  probe holds the last hit_test call: the tree, its            *)
(* configuration, the pointer and the result.                              *)
(***************************************************************************)
HitDocs ==
    LET P(id, str) == [kind |-> "Paragraph", id |-> id, content |-> <<Text(str)>>,
                       dirty |-> TRUE]
    IN  {<<P(1, <<"a", " ", "Z">>), P(2, <<"Z", "Z">>)>>,
         <<P(1, <<"Z", " ", "Z", " ", "Z", " ", "Z", " ", "Z", " ", "Z">>)>>}

\* pointer abscissas: around the left margin of 64 px and the character
\* edges at 8.4, 14, 22.4 and 28 px from it
HitXs == {6400 + d : d \in {-100, 0, 840, 841, 1400, 1401, 2800, 9000}}
\* pointer ordinates: every 11.2 px, half a line, from 5.6 px to 196 px
HitYs == {560 + 1120 * k : k \in 0..17}
HitGaps == {0, 2000}

InitHit ==
    /\ \E blocks \in HitDocs :
         /\ editor = EditorNew([version |-> 1, blocks |-> blocks])
         /\ uuids = Len(blocks)
    /\ engine \in {LayoutEngineNew("Simple", FALSE), LayoutEngineNew("Fontdue", FALSE)}
    /\ cache = LayoutCacheNew
    /\ held = {}
    /\ tree = <<>>
    /\ op = Idle
    /\ warm = Warm("cold", DefaultConfig, FALSE)
    /\ probe = <<>>

\* tester.hit_test(&tree, &config, x, y, page_gap) on the tree of the last
\* layout and its configuration
HitTest(x, y, page_gap) ==
    /\ tree # <<>>
    /\ probe' = [tree |-> tree[1], config |-> op.config, x |-> x, y |-> y,
                 page_gap |-> page_gap,
                 result |-> hit_test(tree[1], op.config, x, y, page_gap, engine.real)]
    /\ UNCHANGED <<editor, uuids, engine, cache, held, tree, op, warm>>

NextHit ==
    \/ \E config \in WrapConfigs : tree = <<>> /\ Layout(config)
    \/ \E x \in HitXs, y \in HitYs, page_gap \in HitGaps : HitTest(x, y, page_gap)

SpecHit == InitHit /\ [][NextHit]_vars

(***************************************************************************)
(* The editing cycle of a client that keeps its tree fresh the way the     *)
(* egui front end does: every command is followed by layout_cached on the  *)
(* editor's document with the client's one cache and one configuration,    *)
(* and then by Document::clear_dirty.  The tree of the cycle stays in      *)
(* tree.                                                                   *)
(***************************************************************************)
FreshCommands ==
    Commands \cup {[type |-> "Redo"], [type |-> "DeleteSelection"],
                   [type |-> "TableInsertRow"]}

\* layout_cached and clear_dirty on the document as it is: the first frame
\* and every frame after a change of version
Relayout(e, u, config) ==
    \E r \in {layout_cached(engine, e.doc, config, cache, held)} :
    /\ r.eng.glyph.hits + r.eng.glyph.misses <= MaxGlyphLookups
    /\ editor' = [e EXCEPT !.doc.blocks = clear_dirty(@)]
    /\ uuids' = u
    /\ engine' = r.eng
    /\ cache' = r.cache
    /\ tree' = <<r.tree>>
    /\ held' = {e.doc.blocks[i].id : i \in 1..Len(e.doc.blocks)}
    /\ op' = [name |-> "layout_cached", config |-> config,
              reused |-> {e.doc.blocks[i].id : i \in
                            {k \in 1..Len(e.doc.blocks) : cache_reuse(cache, e.doc.blocks[k])}},
              item_hits |-> {}]
    /\ warm' = Warm("pure", config, warm.state # "cold")
    /\ UNCHANGED probe

FirstFrame(config) == warm.state = "cold" /\ Relayout(editor, uuids, config)

\* editor.execute(cmd), then the layout pass
EditCycle(cmd, quick) ==
    /\ warm.state = "pure"
    /\ \E r \in {execute(editor, uuids, cmd, quick)} :
         /\ r.e.doc.version <= MaxVersion + 1
         /\ r.uuids <= MaxUuids
         /\ Relayout(r.e, r.uuids, warm.config)

NextFresh ==
    \/ \E config \in Configs : FirstFrame(config)
    \/ \E cmd \in FreshCommands, quick \in BOOLEAN : EditCycle(cmd, quick)

SpecFresh == Init /\ [][NextFresh]_vars

(***************************************************************************)
(* The editor driven with Undo and Redo.  probe keeps the last two         *)
(* commands: their names, the editor before each of them ("none" and the   *)
(* initial editor before the first), and the kind of the entry on top of   *)
(* the undo stack before each ("none" for an empty stack).                 *)
(***************************************************************************)
HistoryCommands ==
    {[type |-> "InsertText", text |-> <<"Z">>],
     [type |-> "InsertLink", url |-> "u", text |-> <<"Z">>],
     [type |-> "TableEditCell", block_id |-> 2, row |-> 0, col |-> 0, text |-> <<"Z">>],
     [type |-> "Undo"], [type |-> "Redo"]}

TopOfUndo(e) ==
    IF e.history.undo_stack = <<>> THEN "none"
    ELSE e.history.undo_stack[Len(e.history.undo_stack)].type

InitHistory ==
    /\ \E blocks \in SampleDocs :
         /\ editor = EditorNew([version |-> 1, blocks |-> blocks])
         /\ uuids = Len(blocks)
    /\ engine = LayoutEngineNew("Simple", FALSE)
    /\ cache = LayoutCacheNew
    /\ held = {}
    /\ tree = <<>>
    /\ op = Idle
    /\ warm = Warm("cold", DefaultConfig, FALSE)
    /\ probe = [cmds |-> <<"none", "none">>, eds |-> <<editor, editor>>,
                tops |-> <<"none", "none">>]

\* Editor::execute(cmd), remembered
HistoryStep(cmd, quick) ==
    \E r \in {execute(editor, uuids, cmd, quick)} :
    /\ r.e.doc.version <= MaxVersion + 1
    /\ r.uuids <= MaxUuids
    /\ editor' = r.e
    /\ uuids' = r.uuids
    /\ probe' = [cmds |-> <<probe.cmds[2], cmd.type>>,
                 eds |-> <<probe.eds[2], editor>>,
                 tops |-> <<probe.tops[2], TopOfUndo(editor)>>]
    /\ UNCHANGED <<engine, cache, held, tree, op, warm>>

NextHistory == \E cmd \in HistoryCommands, quick \in BOOLEAN : HistoryStep(cmd, quick)

SpecHistory == InitHistory /\ [][NextHistory]_vars

(***************************************************************************)
(* diff.rs: DiffEngine.  A hash is modelled by the sequence of values the  *)
(* function feeds to the hasher, each as <<type, value>>, so that two      *)
(* blocks have the same hash exactly when they feed the same values.  The  *)
(* engine is [cache, generation] with cache a function from block ids to   *)
(* [hash, generation]; the patches of a call are kept as the set of        *)
(* [block_id, kind], the RemoveBlock patches coming in the iteration order *)
(* of a HashMap.                                                           *)
(***************************************************************************)
\* diff.rs hash_inlines
RECURSIVE diff_hash_inlines(_)
diff_hash_inlines(inlines) ==
    IF inlines = <<>> THEN <<>>
    ELSE LET in == Head(inlines) IN
         <<(<<"inline", in.type>>)>> \o
         (CASE in.type \in {"Text", "CodeSpan"} -> <<(<<"str", in.value>>)>>
            [] in.type = "Styled" ->
                 <<(<<"bool", in.style.bold>>), <<"bool", in.style.italic>>,
                   <<"bool", in.style.underline>>, <<"bool", in.style.strikethrough>>>>
                 \o diff_hash_inlines(in.content)
            [] OTHER -> <<(<<"str", in.url>>)>> \o diff_hash_inlines(in.text))
         \o diff_hash_inlines(Tail(inlines))

\* diff.rs hash_block_inner (and hash_block, which finishes the hasher)
RECURSIVE diff_hash_block(_)
diff_hash_block(block) ==
    <<(<<"block", block.kind>>)>> \o
    (CASE block.kind = "Heading" ->
            <<(<<"u8", block.level>>)>> \o diff_hash_inlines(block.content)
       [] block.kind = "Paragraph" -> diff_hash_inlines(block.content)
       [] block.kind = "List" ->
            <<(<<"bool", block.ordered>>)>>
            \o Concat([k \in 1..Len(block.items) |->
                         diff_hash_inlines(block.items[k].content)])
       [] block.kind = "Quote" ->
            Concat([k \in 1..Len(block.content) |-> diff_hash_block(block.content[k])])
       [] block.kind = "Code" -> <<(<<"str", block.lang>>), <<"str", block.code>>>>
       [] block.kind = "Table" ->
            Concat([r \in 1..Len(block.rows) |->
                      <<(<<"usize", Len(block.rows[r])>>)>>
                      \o Concat([k \in 1..Len(block.rows[r]) |->
                                   diff_hash_inlines(block.rows[r][k].content)])])
       [] OTHER ->
            <<(<<"str", block.url>>), <<"option", Len(block.caption)>>>>
            \o [k \in 1..Len(block.caption) |-> <<"str", block.caption[k]>>]
            \o (IF block.size = <<>> THEN <<>>
                ELSE <<(<<"u32", block.size[1].width>>), <<"u32", block.size[1].height>>>>))

DiffEngineNew == [cache |-> EmptyMap, generation |-> 0]

\* the `for block in &doc.blocks` loop of incremental_diff from block i
RECURSIVE DiffLoop(_, _, _, _, _)
DiffLoop(cch, out, blocks, i, generation) ==
    IF i > Len(blocks) THEN [cache |-> cch, out |-> out]
    ELSE LET block == blocks[i]
             id == block.id
             prev == IF id \in DOMAIN cch THEN <<cch[id].hash>> ELSE <<>>
             hash == IF ~block.dirty /\ prev # <<>> THEN prev[1] ELSE diff_hash_block(block)
             patch == IF prev = <<>> THEN {[block_id |-> id, kind |-> "InsertBlock"]}
                      ELSE IF prev[1] # hash
                      THEN {[block_id |-> id, kind |-> "ReplaceBlock"]}
                      ELSE {}
         IN  DiffLoop([k \in DOMAIN cch \cup {id} |->
                         IF k = id THEN [hash |-> hash, generation |-> generation]
                         ELSE cch[k]],
                      out \cup patch, blocks, i + 1, generation)

\* DiffEngine::incremental_diff: [diff, patches].  generation is a u64
\* advanced by wrapping_add; it does not wrap within the calls of a run
incremental_diff(diff, d) ==
    LET generation == diff.generation + 1
        r == DiffLoop(diff.cache, {}, d.blocks, 1, generation)
        removed == {id \in DOMAIN r.cache : r.cache[id].generation # generation}
    IN  [diff |-> [cache |-> [id \in DOMAIN r.cache \ removed |-> r.cache[id]],
                   generation |-> generation],
         patches |-> r.out \cup {[block_id |-> id, kind |-> "RemoveBlock"] : id \in removed}]

(***************************************************************************)
(* A client of DiffEngine: it edits and calls incremental_diff or          *)
(* incremental_diff_and_clear.  probe holds the engine, the number of      *)
(* calls, the patches of the last call, and seen: for each block id of the *)
(* document at the last call, the content the block had then.              *)
(***************************************************************************)
MaxDiffCalls == 3

InitDiff ==
    /\ \E blocks \in SampleDocs :
         /\ editor = EditorNew([version |-> 1, blocks |-> blocks])
         /\ uuids = Len(blocks)
    /\ engine = LayoutEngineNew("Simple", FALSE)
    /\ cache = LayoutCacheNew
    /\ held = {}
    /\ tree = <<>>
    /\ op = Idle
    /\ warm = Warm("cold", DefaultConfig, FALSE)
    /\ probe = [diff |-> DiffEngineNew, calls |-> 0, patches |-> {}, seen |-> EmptyMap]

\* diff.incremental_diff(&doc), or incremental_diff_and_clear(&mut doc)
IncrementalDiff(and_clear) ==
    /\ probe.calls < MaxDiffCalls
    /\ \E r \in {incremental_diff(probe.diff, editor.doc)} :
         probe' = [diff |-> r.diff, calls |-> probe.calls + 1, patches |-> r.patches,
                   seen |-> [id \in {editor.doc.blocks[i].id : i \in 1..Len(editor.doc.blocks)}
                               |-> clear_dirty(<<editor.doc.blocks[
                                      BlockPos(editor.doc.blocks, id)]>>)[1]]]
    /\ editor' = IF and_clear THEN [editor EXCEPT !.doc.blocks = clear_dirty(@)] ELSE editor
    /\ UNCHANGED <<uuids, engine, cache, held, tree, op, warm>>

NextDiff ==
    \/ \E cmd \in Commands, quick \in BOOLEAN : Execute(cmd, quick)
    \/ \E and_clear \in BOOLEAN : IncrementalDiff(and_clear)

SpecDiff == InitDiff /\ [][NextDiff]_vars

(***************************************************************************)
(* The cache in the hands of a client that also calls LayoutCache::clear:  *)
(* the client types, lays out with layout_cached keeping the tree or, as   *)
(* WasmEditor::layout does, dropping it, and clears the cache while it     *)
(* still holds the tree of its last call.                                  *)
(***************************************************************************)
\* cache.clear()
Clear ==
    /\ cache' = clear(cache, held)
    /\ op' = [name |-> "clear", config |-> DefaultConfig, reused |-> {}, item_hits |-> {}]
    /\ UNCHANGED <<editor, uuids, engine, held, tree, warm, probe>>

NextCache ==
    \/ \E cmd \in Commands, quick \in BOOLEAN : Execute(cmd, quick)
    \/ \E config \in Configs : LayoutCached(config)
    \/ \E width \in WasmWidths : WasmLayout(width)
    \/ Clear

SpecCache == Init /\ [][NextCache]_vars

(***************************************************************************)
(* LayoutCache through its public methods insert, insert_with_sig and      *)
(* clear, called in any order on two ids with the LayoutBlocks and         *)
(* signatures of two one-line paragraphs.  probe tells, for each id with a *)
(* stored block, what came with that block: <<sig>> for insert_with_sig,   *)
(* <<>> for insert.                                                        *)
(***************************************************************************)
MaxPoolLines == 3

ApiIds == {1, 2}

\* the LayoutBlock of a one-line paragraph under id, with its signature
ApiEntries(id) ==
    {[block |-> LayoutBlock(id, <<"Paragraph">>, <<Line(<<ch>>, 840)>>, 2240, <<>>),
      sig |-> hash_block([kind |-> "Paragraph", id |-> id, content |-> <<Text(<<ch>>)>>,
                          dirty |-> TRUE])] : ch \in {"a", "b"}}

InitCacheApi == NoEditor /\ probe = EmptyMap

\* cache.insert(id, block)
CacheInsert(id, entry) ==
    /\ cache.line_pool < MaxPoolLines
    /\ cache' = insert(cache, id, entry.block, held)
    /\ probe' = (id :> <<>>) @@ probe
    /\ UNCHANGED <<editor, uuids, engine, held, tree, op, warm>>

\* cache.insert_with_sig(id, block, sig)
CacheInsertWithSig(id, entry) ==
    /\ cache.line_pool < MaxPoolLines
    /\ cache' = insert_with_sig(cache, id, entry.block, entry.sig, held)
    /\ probe' = (id :> <<entry.sig>>) @@ probe
    /\ UNCHANGED <<editor, uuids, engine, held, tree, op, warm>>

\* cache.clear()
CacheClear ==
    /\ cache.line_pool < MaxPoolLines
    /\ cache' = clear(cache, held)
    /\ probe' = EmptyMap
    /\ UNCHANGED <<editor, uuids, engine, held, tree, op, warm>>

NextCacheApi ==
    \/ \E id \in ApiIds : \E entry \in ApiEntries(id) : CacheInsert(id, entry)
    \/ \E id \in ApiIds : \E entry \in ApiEntries(id) : CacheInsertWithSig(id, entry)
    \/ CacheClear

SpecCacheApi == InitCacheApi /\ [][NextCacheApi]_vars

(***************************************************************************)
(* layout_cached_parallel step by step, on documents of paragraphs.  The   *)
(* call scans the cache, fans the blocks to compute out to one             *)
(* LayoutWorker each, and merges when every worker has returned.  A worker *)
(* has its own break buffer and locals and shares the glyph cache of the   *)
(* engine's measurer, which it locks for one measure call at a time; one   *)
(* step of a worker is one iteration of the loop of wrap_text, or the code *)
(* after that loop.  The workers' steps interleave in any order.  probe    *)
(* holds the call: phase ("fan" between scan and merge, "done" after the   *)
(* merge), config, reuse and sigs as in the source, the workers by block   *)
(* index, and from, the engine, cache and held trees the call began with.  *)
(***************************************************************************)
FanTexts == {<<"Z", "Z", "a">>, <<"U+4E00", "Z">>, <<"Z", " ", "U+4E00">>}

\* the locals of wrap_text before its loop
WrapLocals(g) ==
    [start |-> 0, last_break |-> -1, last_break_width |-> 0,
     current_width |-> 0, out |-> <<>>, g |-> g]

\* LayoutWorker::wrap_text after its loop: the final slice.  [lines, g]
WrapFinish(text, s, metrics, rl) ==
    Bind(Slice(text, s.start, ByteLen(text)), LAMBDA raw :
    Bind(trim_end(raw), LAMBDA slice :
    Bind(IF slice # <<>> /\ Len(slice) # Len(raw)
         THEN Measure(rl, s.g, slice, metrics) ELSE [w |-> s.current_width, g |-> s.g],
         LAMBDA m :
    LET out == IF slice # <<>> THEN Append(s.out, Line(slice, m.w)) ELSE s.out
    IN  [lines |-> IF out = <<>> THEN <<Line(<<>>, 0)>> ELSE out, g |-> m.g])))

InitFanOut ==
    /\ \E t1 \in FanTexts, t2 \in FanTexts, d \in BOOLEAN :
         editor = EditorNew([version |-> 1, blocks |->
                    <<[kind |-> "Paragraph", id |-> 1, content |-> <<Text(t1)>>, dirty |-> d],
                      [kind |-> "Paragraph", id |-> 2, content |-> <<Text(t2)>>, dirty |-> d]>>])
    /\ uuids = 2
    /\ engine \in {LayoutEngineNew("Simple", TRUE), LayoutEngineNew("Fontdue", TRUE)}
    /\ cache = LayoutCacheNew
    /\ held = {}
    /\ tree = <<>>
    /\ op = Idle
    /\ warm = Warm("cold", DefaultConfig, FALSE)
    /\ probe = <<>>

FanIdle == IF probe = <<>> THEN TRUE ELSE probe.phase = "done"

\* layout_cached up to the fan-out: the pre-warm, then the scan that fills
\* reuse, sigs and compute_idx (the indices that get a worker)
FanScan(config) ==
    LET blocks == editor.doc.blocks
        compute_idx == {i \in 1..Len(blocks) : ~cache_reuse(cache, blocks[i])}
    IN  /\ FanIdle
        /\ engine.parallel /\ Len(blocks) > ParThreshold
        /\ engine' = prewarm_if_needed(engine, editor.doc, config.metrics)
        /\ probe' = [phase |-> "fan", config |-> config,
                     reuse |-> [i \in 1..Len(blocks) |->
                                  IF i \in compute_idx THEN <<>>
                                  ELSE <<cache.blocks[blocks[i].id]>>],
                     sigs |-> [i \in 1..Len(blocks) |-> hash_block(blocks[i])],
                     workers |-> [i \in compute_idx |->
                                    [text |-> join_inline(blocks[i].content), i |-> 1,
                                     s |-> WrapLocals(GlyphCacheNew), lb |-> <<>>]],
                     from |-> [engine |-> engine, cache |-> cache, held |-> held]]
        /\ op' = Idle
        /\ tree' = <<>>
        /\ UNCHANGED <<editor, uuids, cache, held, warm>>

\* one iteration of the loop of wrap_text in the worker of block k
FanWorkerIter(k) ==
    /\ probe # <<>> /\ probe.phase = "fan"
    /\ k \in DOMAIN probe.workers
    /\ probe.workers[k].lb = <<>>
    /\ probe.workers[k].i <= Len(probe.workers[k].text)
    /\ \E s \in {WrapStep(probe.workers[k].text, break_positions(probe.workers[k].text),
                           (probe.config.page_width - probe.config.margin * 2) * 100,
                           probe.config.metrics, engine.real,
                           [probe.workers[k].s EXCEPT !.g = engine.glyph],
                           probe.workers[k].i)} :
         /\ probe' = [probe EXCEPT !.workers[k].s = [s EXCEPT !.g = GlyphCacheNew],
                                   !.workers[k].i = @ + 1]
         /\ engine' = [engine EXCEPT !.glyph = s.g]
    /\ UNCHANGED <<editor, uuids, cache, held, tree, op, warm>>

\* the worker of block k leaves the loop and returns its LayoutBlock
FanWorkerReturn(k) ==
    /\ probe # <<>> /\ probe.phase = "fan"
    /\ k \in DOMAIN probe.workers
    /\ probe.workers[k].lb = <<>>
    /\ probe.workers[k].i > Len(probe.workers[k].text)
    /\ \E r \in {WrapFinish(probe.workers[k].text,
                            [probe.workers[k].s EXCEPT !.g = engine.glyph],
                            probe.config.metrics, engine.real)} :
         /\ probe' = [probe EXCEPT !.workers[k].lb =
                        <<LayoutBlock(editor.doc.blocks[k].id, <<"Paragraph">>, r.lines,
                                      LinesHeight(r.lines, probe.config.metrics), <<>>)>>]
         /\ engine' = [engine EXCEPT !.glyph = r.g]
    /\ UNCHANGED <<editor, uuids, cache, held, tree, op, warm>>

FanAllReturned ==
    /\ probe # <<>> /\ probe.phase = "fan"
    /\ \A k \in DOMAIN probe.workers : probe.workers[k].lb # <<>>

\* the merge loop from block i: the cache after the inserts
RECURSIVE FanInsert(_, _)
FanInsert(c, i) ==
    IF i > Len(editor.doc.blocks) THEN c
    ELSE FanInsert(IF probe.reuse[i] # <<>> THEN c
                   ELSE insert_with_sig(c, editor.doc.blocks[i].id, probe.workers[i].lb[1],
                                        probe.sigs[i], held), i + 1)

RECURSIVE FanPaginate(_, _)
FanPaginate(st, i) ==
    IF i > Len(editor.doc.blocks) THEN st
    ELSE FanPaginate(place_block(st, IF probe.reuse[i] # <<>> THEN probe.reuse[i][1]
                                     ELSE probe.workers[i].lb[1], probe.config), i + 1)

\* collect() has returned: the merge loop, paginate_blocks, and the return
\* to a client that keeps the tree.  Every index of compute_idx has an entry
\* in computed, so the loop's last arm is not taken.
FanMerge ==
    /\ FanAllReturned
    /\ cache' = FanInsert(cache, 1)
    /\ tree' = <<LayoutTree(FanPaginate(PaginateStart, 1))>>
    /\ held' = {editor.doc.blocks[i].id : i \in 1..Len(editor.doc.blocks)}
    /\ op' = [name |-> "layout_cached", config |-> probe.config,
              reused |-> {editor.doc.blocks[i].id :
                            i \in (1..Len(editor.doc.blocks)) \ DOMAIN probe.workers},
              item_hits |-> {}]
    /\ probe' = [probe EXCEPT !.phase = "done"]
    /\ UNCHANGED <<editor, uuids, engine, warm>>

NextFanOut ==
    \/ \E config \in Configs : FanScan(config)
    \/ \E k \in 1..2 : FanWorkerIter(k)
    \/ \E k \in 1..2 : FanWorkerReturn(k)
    \/ FanMerge
    \/ \E quick \in BOOLEAN :
          FanIdle /\ Execute([type |-> "InsertText", text |-> <<"Z">>], quick)

SpecFanOut == InitFanOut /\ [][NextFanOut]_vars

(***************************************************************************)
(* Properties.                                                             *)
(***************************************************************************)
CachedOps == {"layout_cached", "wasm_layout"}

Docs == editor.doc.blocks
DocIds == {Docs[i].id : i \in 1..Len(Docs)}

\* the LayoutBlocks of a tree in page order
TreeBlocks(t) == Concat([p \in 1..Len(t.pages) |-> t.pages[p].blocks])

\* what a reader of a tree sees of it: per page its number and, per block,
\* the id, the line texts and the height
View(t) ==
    [p \in 1..Len(t.pages) |->
       [number |-> t.pages[p].number,
        blocks |-> [k \in 1..Len(t.pages[p].blocks) |->
                      LET lb == t.pages[p].blocks[k] IN
                      [block_id |-> lb.block_id,
                       texts |-> [l \in 1..Len(lb.lines) |-> lb.lines[l].text],
                       height |-> lb.height]]]]

\* the tree LayoutEngine::layout returns on a newly built engine
FreshLayout(config) ==
    layout(LayoutEngineNew(engine.real, engine.parallel), editor.doc, config).tree

\* C1: a layout_cached call on a cache that holds only what earlier
\* layout_cached calls on this document and config left in it returns a tree
\* with the line texts, block heights and page assignment of layout on the
\* document and config.
C1_WarmCacheEquivalence ==
    (op.name \in CachedOps /\ warm.state = "pure" /\ ~warm.edited)
    => View(tree[1]) = View(FreshLayout(op.config))

\* C1 witness: a call served entirely from the warm cache, on several pages
C1_Witness ==
    /\ op.name = "layout_cached" /\ warm.state = "pure" /\ ~warm.edited
    /\ DocIds # {} /\ op.reused = DocIds
    /\ Len(tree[1].pages) >= 2

\* C2: layout_cached reuses a whole-block entry only when the signature
\* stored for the id equals the signature of the block as it is now, the
\* dirty flag being false included.
C2_ReuseOnlyOnSignatureMatch ==
    op.name \in CachedOps =>
      \A i \in 1..Len(Docs) :
         Docs[i].id \in op.reused =>
           /\ Docs[i].id \in DOMAIN cache.sigs
           /\ cache.sigs[Docs[i].id] = hash_block(Docs[i])

\* C3: when the config of a layout_cached call differs from the config of
\* the calls that filled the cache, nothing is reused from the cache, and
\* WasmEditor::layout(width) on a document that was not edited since the
\* cache was filled returns the line counts and heights of layout at width.
C3_ConfigChangeInvalidates ==
    [][ /\ (op'.name \in CachedOps /\ warm.state = "pure" /\ warm.config # op'.config)
           => (op'.reused = {} /\ op'.item_hits = {})
        /\ (op'.name = "wasm_layout" /\ ~warm'.edited)
           => LET got == TreeBlocks(tree'[1])
                  want == TreeBlocks(FreshLayout(op'.config))
              IN  [k \in 1..Len(got) |-> <<Len(got[k].lines), got[k].height>>]
                  = [k \in 1..Len(want) |-> <<Len(want[k].lines), want[k].height>>]
      ]_vars

\* the sub-item entries of the cache under block id
ItemEntries(ch, id) ==
    [which \in {"list_item_cache", "quote_item_cache", "table_row_cache"} |->
       {<<key, ch[which][key]>> : key \in {k \in DOMAIN ch[which] : k[1] = id}}]

\* whether the cache holds sub-item k (1-based) of the block under its
\* current signature
ItemCached(ch, block, k) ==
    /\ sub_item_sigs(block)[k] # <<>>
    /\ <<block.id, k - 1>> \in DOMAIN ch[sub_item_map(block)]
    /\ ch[sub_item_map(block)][<<block.id, k - 1>>].sig = sub_item_sigs(block)[k][1]

C5_DirtyMatchReturnsCached ==
    [][ op'.name \in CachedOps =>
          \A i \in 1..Len(Docs) :
             LET b == Docs[i] IN
             (/\ is_effectively_dirty(b)
              /\ b.id \in DOMAIN cache.blocks
              /\ b.id \in DOMAIN cache.sigs
              /\ cache.sigs[b.id] = hash_block(b)) =>
                /\ TreeBlocks(tree'[1])[i] = cache.blocks[b.id]
                /\ cache'.blocks[b.id] = cache.blocks[b.id]
                /\ cache'.sigs[b.id] = cache.sigs[b.id]
                /\ ItemEntries(cache', b.id) = ItemEntries(cache, b.id)
                /\ b.id \in op'.reused
      ]_vars

\* C5 witness: a dirty block served from the cache by a call whose config
\* is not the one the block was laid out under
C5_Witness ==
    /\ op.name \in CachedOps /\ warm.state = "mixed"
    /\ \E i \in 1..Len(Docs) :
         /\ is_effectively_dirty(Docs[i])
         /\ Docs[i].id \in op.reused
         /\ Docs[i].id \in DOMAIN cache.sigs
         /\ cache.sigs[Docs[i].id] = hash_block(Docs[i])

\* C6: for a block that is not effectively dirty and has a whole-block entry,
\* layout_cached returns the entry whatever the stored signature is and
\* leaves the entries of the id unchanged; a clean block is recomputed only
\* when the cache has no entry for its id.
C6_CleanTrustedFromCache ==
    [][ op'.name \in CachedOps =>
          \A i \in 1..Len(Docs) :
             LET b == Docs[i] IN
             ~is_effectively_dirty(b) =>
                /\ b.id \in DOMAIN cache.blocks =>
                     /\ TreeBlocks(tree'[1])[i] = cache.blocks[b.id]
                     /\ cache'.blocks[b.id] = cache.blocks[b.id]
                     /\ (b.id \in DOMAIN cache.sigs => cache'.sigs[b.id] = cache.sigs[b.id])
                     /\ ItemEntries(cache', b.id) = ItemEntries(cache, b.id)
                /\ b.id \notin op'.reused => b.id \notin DOMAIN cache.blocks
      ]_vars

\* C6 witness: a clean block served from the cache although the signature
\* stored for it is not the one of its content
C6_Witness ==
    /\ op.name \in CachedOps
    /\ \E i \in 1..Len(Docs) :
         /\ ~is_effectively_dirty(Docs[i])
         /\ Docs[i].id \in op.reused
         /\ cache.sigs[Docs[i].id] # hash_block(Docs[i])

\* C7: layout returns the tree a newly built engine returns for the document
\* and config, whatever the break-position caches, the glyph cache and
\* last_prewarm_version hold from earlier calls.
C7_LayoutDeterministic ==
    op.name = "layout" => tree[1] = FreshLayout(op.config)

\* C7 witness: a layout call on an engine whose break-position caches were
\* filled by a call with another config, on a document with wrapped text
C7_Witness ==
    /\ op.name = "layout"
    /\ editor.doc.version > 1
    /\ \E key \in DOMAIN engine.break_cache_short \cup
                  {engine.break_cache_long[k].key : k \in 1..Len(engine.break_cache_long)} :
         key.width_q # quantize_width((op.config.page_width - op.config.margin * 2) * 100)
    /\ \E k \in 1..Len(TreeBlocks(tree[1])) : Len(TreeBlocks(tree[1])[k].lines) >= 2

\* the height layout_block_inner gives a block of n lines under a config:
\* n * font_size * line_height, for a Figure on top of the asset height
ExpectedHeight(lb, config) ==
    Len(lb.lines) * config.metrics.font_size * config.metrics.line_height
    + (IF lb.kind = <<"Figure">> THEN lb.meta[1].height ELSE 0)

C9_PagesHoldBlocks ==
    tree # <<>> =>
      \A p \in 1..Len(tree[1].pages) :
         tree[1].pages[p].blocks # <<>> \/ (Docs = <<>> /\ Len(tree[1].pages) = 1)

\* C9 witness: a paged tree of several pages whose first block is higher
\* than the page body
C9_Witness ==
    /\ tree # <<>> /\ op.config.paged
    /\ Len(tree[1].pages) >= 2
    /\ tree[1].pages[1].blocks[1].height
         > (op.config.page_height - op.config.margin * 2) * 100

\* C9 as stated: every Page of a returned tree holds at least one block.
C9_EveryPageHoldsABlock ==
    tree # <<>> => \A p \in 1..Len(tree[1].pages) : tree[1].pages[p].blocks # <<>>

\* C10: for a document without blocks the returned tree is one page,
\* numbered 1, without blocks and of height 0; every returned tree has at
\* least one page.
C10_EmptyDocumentOnePage ==
    tree # <<>> =>
      /\ Len(tree[1].pages) >= 1
      /\ Docs = <<>> => tree[1].pages = <<[number |-> 1, blocks |-> <<>>, height |-> 0]>>

\* C10 witness: layout and layout_cached called on the empty document
C10_Witness ==
    /\ Docs = <<>> /\ tree # <<>>
    /\ op.name = "layout"
    /\ warm.state # "cold"

\* page body height of a configuration, in hundredths of a pixel
MaxHeight(config) == (config.page_height - config.margin * 2) * 100

\* the block ids of a sequence of blocks or LayoutBlocks
BlockIds(blocks) == [k \in 1..Len(blocks) |-> blocks[k].id]
LayoutIds(lbs) == [k \in 1..Len(lbs) |-> lbs[k].block_id]

\* C11: with config.paged false, layout and layout_cached return exactly one
\* page, and its blocks are the document's blocks in document order, whatever
\* their total height.
C11_UnpagedSinglePage ==
    (op.name \in {"layout", "layout_cached"} /\ ~op.config.paged)
    => /\ Len(tree[1].pages) = 1
       /\ LayoutIds(tree[1].pages[1].blocks) = BlockIds(Docs)

\* C11 witness: an unpaged layout_cached of several blocks that are together
\* higher than the page body
C11_Witness ==
    /\ op.name = "layout_cached" /\ ~op.config.paged
    /\ Len(Docs) >= 3
    /\ Len(tree[1].pages) = 1
    /\ tree[1].pages[1].height > MaxHeight(op.config)

\* for each LayoutBlock of a tree, in page order, the index of its page
PageSeq(t) == Concat([p \in 1..Len(t.pages) |-> [k \in 1..Len(t.pages[p].blocks) |-> p]])

\* the summed height of the LayoutBlocks i..j
RECURSIVE HeightSum(_, _, _)
HeightSum(lbs, i, j) == IF i > j THEN 0 ELSE lbs[i].height + HeightSum(lbs, i + 1, j)

\* the runs i..j of blocks of the tree that begin a page and whose heights
\* sum exactly to the page body
FullRuns ==
    LET b == TreeBlocks(tree[1])
        pg == PageSeq(tree[1])
    IN  {r \in (1..Len(b)) \X (1..Len(b)) :
           /\ r[1] <= r[2]
           /\ r[1] = 1 \/ pg[r[1] - 1] # pg[r[1]]
           /\ HeightSum(b, r[1], r[2]) = MaxHeight(op.config)}

C13_OversizedBlockAlone ==
    (op.name \in {"layout", "layout_cached"} /\ op.config.paged)
    => LET b == TreeBlocks(tree[1])
           pg == PageSeq(tree[1])
       IN  /\ LayoutIds(b) = BlockIds(Docs)
           /\ \A k \in 1..Len(b) :
                 b[k].height > MaxHeight(op.config)
                 => /\ tree[1].pages[pg[k]].blocks = <<b[k]>>
                    /\ tree[1].pages[pg[k]].height = b[k].height

\* C13 witness: a block of four lines, higher than the page body, between
\* two blocks of height zero, each on a page of its own
C13_Witness ==
    /\ op.name = "layout_cached" /\ op.config.paged
    /\ Len(Docs) = 3
    /\ PageSeq(tree[1]) = <<1, 2, 3>>
    /\ TreeBlocks(tree[1])[1].height = 0
    /\ TreeBlocks(tree[1])[2].height > MaxHeight(op.config)
    /\ Len(TreeBlocks(tree[1])[2].lines) = 4
    /\ TreeBlocks(tree[1])[3].height = 0

\* the text of the wrapped paragraph, its available width in hundredths of
\* a pixel, and the Lines the wrap loop returned for it
WrapInput == join_inline(Docs[1].content)
WrapWidth == (op.config.page_width - op.config.margin * 2) * 100
WrapLines == tree[1].pages[1].blocks[1].lines

\* C14: no Line emitted by the wrap loop after the first starts with a
\* forbidden line-start character, and no Line before the last ends with a
\* forbidden line-end character (the first Line starts with the first
\* character of the text and the last ends with its last, whatever they are).
C14_NoForbiddenLineStartEnd ==
    op.name = "layout"
    => \A k \in 1..Len(WrapLines) :
          LET t == WrapLines[k].text IN
          t # <<>> => /\ k > 1 => ~is_forbidden_line_start(t[1])
                      /\ k < Len(WrapLines) => ~is_forbidden_line_end(t[Len(t)])

\* whether text t is the Line texts ls in order, each followed by zero or
\* more whitespace characters
RECURSIVE Rejoins(_, _)
Rejoins(t, ls) ==
    IF ls = <<>> THEN t = <<>>
    ELSE LET l == Head(ls).text IN
         /\ Len(l) <= Len(t)
         /\ SubSeq(t, 1, Len(l)) = l
         /\ \E k \in Len(l)..Len(t) :
               /\ \A j \in (Len(l) + 1)..k : IsWhitespace(t[j])
               /\ Rejoins(SubSeq(t, k + 1, Len(t)), Tail(ls))

\* C15 (as amended): the Line texts are runs of whole characters of the
\* input, and the input is the Line texts in order with whitespace between
\* them, after the last and before the first: every stretch of the text
\* between two breaks is emitted without its trailing whitespace, and a
\* stretch of whitespace only emits no Line.
C15_TextIsLinesAndWhitespace ==
    op.name = "layout"
    => \E k \in 0..Len(WrapInput) :
          /\ \A j \in 1..k : IsWhitespace(WrapInput[j])
          /\ Rejoins(SubSeq(WrapInput, k + 1, Len(WrapInput)), WrapLines)

\* C15 witness: a token of three letters, wider than the line, is broken
\* after each letter and the space before it is dropped
C15_Witness ==
    /\ op.name = "layout"
    /\ WrapInput = <<" ", "a", "a", "a">>
    /\ WrapWidth = 1400
    /\ WrapLines = <<Line(<<"a">>, 840), Line(<<"a">>, 840), Line(<<"a">>, 840)>>

\* C15 as stated: the Line texts are runs of whole characters of the input,
\* and concatenating them in order gives the input except for whitespace
\* removed at the end of each emitted Line.
C15_ConcatenationReproducesText ==
    op.name = "layout" => Rejoins(WrapInput, WrapLines)

\* C16: wrapping a text returns at least one Line; for the empty text and
\* for a text of whitespace only it returns exactly one Line, with empty
\* text and width 0.
C16_AtLeastOneLine ==
    op.name = "layout"
    => /\ Len(WrapLines) >= 1
       /\ (\A j \in 1..Len(WrapInput) : IsWhitespace(WrapInput[j]))
            => WrapLines = <<Line(<<>>, 0)>>

\* C16 witness: four spaces, wider than the line, wrapped by the glyph
\* measurer engine into the single empty Line
C16_Witness ==
    /\ op.name = "layout" /\ engine.real = "Fontdue"
    /\ WrapInput = <<" ", " ", " ", " ">>
    /\ WrapWidth = 1400
    /\ WrapLines = <<Line(<<>>, 0)>>

\* C17: adjust_break is idempotent: applied to the position it returned,
\* with the same text and segment start, it returns that position again.
C17_AdjustBreakIdempotent ==
    (probe # <<>> /\ "calls" \in DOMAIN probe /\ probe.calls # <<>>)
    => LET c == probe.calls[1] IN
       adjust_break(probe.text, c.start, c.result) = c.result

\* whether the iteration about to run commits a break: the test
\* `current_width > width && pos > start` after the character is measured
WrapOverflows ==
    LET w == Measure(probe.real, probe.s.g, <<probe.text[probe.i]>>,
                     DefaultConfig.metrics).w
    IN  /\ probe.s.current_width + w > probe.width
        /\ OffsetOf(probe.text, probe.i) > probe.s.start

\* C18: the wrap loop terminates for every text and positive width; every
\* break it commits, with the position adjust_break returned for it, is
\* strictly after the current line start and at most the end of the text,
\* and an iteration that commits no break leaves the line start alone, so
\* the line starts strictly increase.
C18_WrapLoopTerminates ==
    /\ [][probe # <<>>
          => IF WrapOverflows
             THEN /\ probe'.s.start > probe.s.start
                  /\ probe'.s.start <= ByteLen(probe.text)
             ELSE probe'.s.start = probe.s.start]_vars
    /\ (probe # <<>>) ~> (probe # <<>> /\ probe.i > Len(probe.text))

\* C18 witness: the loop has ended on an ideograph followed by three
\* closing brackets after a hard break that adjust_break moved from byte 6
\* to byte 9
C18_Witness ==
    /\ probe # <<>> /\ "s" \in DOMAIN probe
    /\ probe.i > Len(probe.text)
    /\ probe.text = <<"Z", ">", ">", ">">> /\ probe.width = 2800 /\ probe.real = "Simple"
    /\ probe.s.start = 9
    /\ probe.s.out = <<Line(<<"Z", ">", ">">>, 3360)>>

\* C19: with the heuristic measurer, the sixteen ideographs of SampleCjk at
\* font size 14 and available width 100 wrap into more than one Line, every
\* Line has a width of at most 100 plus one character (14), and the Line
\* texts concatenated in order are exactly the input.
C19_SampleCjkWraps ==
    (op.name = "layout" /\ engine.real = "Simple" /\ WrapInput = SampleCjk
       /\ WrapWidth = 10000 /\ op.config.metrics.font_size = 140)
    => /\ Len(WrapLines) > 1
       /\ \A k \in 1..Len(WrapLines) : WrapLines[k].width <= 10000 + 1400
       /\ Concat([k \in 1..Len(WrapLines) |-> WrapLines[k].text]) = SampleCjk

\* C19 witness: the sample laid out at 100 px by the heuristic measurer, in
\* Lines of seven, seven and two ideographs
C19_Witness ==
    /\ op.name = "layout" /\ engine.real = "Simple" /\ WrapInput = SampleCjk
    /\ WrapWidth = 10000
    /\ [k \in 1..Len(WrapLines) |-> Len(WrapLines[k].text)] = <<7, 7, 2>>
    /\ [k \in 1..Len(WrapLines) |-> WrapLines[k].width] = <<9800, 9800, 2800>>

\* the pieces of a code between its line feed characters; cur is the piece
\* being read
RECURSIVE SplitNl(_, _)
SplitNl(code, cur) ==
    IF code = <<>> THEN <<cur>>
    ELSE IF Head(code) = "nl" THEN <<cur>> \o SplitNl(Tail(code), <<>>)
    ELSE SplitNl(Tail(code), Append(cur, Head(code)))

\* the texts of the Lines of the first block of the tree
FirstBlockTexts ==
    LET ls == tree[1].pages[1].blocks[1].lines IN [k \in 1..Len(ls) |-> ls[k].text]

\* C20: a Code block is laid out as exactly one Line per piece obtained by
\* splitting its code at the line feed characters, the text of each Line
\* being that piece; no piece is wrapped, whatever its width.
C20_OneLinePerSourceLine ==
    (op.name = "layout" /\ Docs # <<>> /\ Docs[1].kind = "Code")
    => FirstBlockTexts = SplitNl(Docs[1].code, <<>>)

\* a call of layout_cached_parallel has returned and the document is as the
\* call saw it
FanReturned == probe # <<>> /\ probe.phase = "done" /\ op.name = "layout_cached"

\* the same call with the workers run one after the other in document order
FanInOrder ==
    layout_cached(probe.from.engine, editor.doc, probe.config, probe.from.cache,
                  probe.from.held)

\* C21: in layout_cached_parallel the cache is written only once every
\* worker has returned; after the call each block a worker computed has a
\* whole-block entry stored with its signature, and a call repeated at once
\* on the unchanged document gives no block to a worker.
C21_CacheUpdatedAfterMerge ==
    /\ [][cache' # cache => FanAllReturned /\ probe'.phase = "done"]_vars
    /\ [](FanReturned =>
            \A k \in DOMAIN probe.workers :
               LET block == editor.doc.blocks[k] IN
               /\ block.id \in DOMAIN cache.blocks
               /\ cache.blocks[block.id] = probe.workers[k].lb[1]
               /\ block.id \in DOMAIN cache.sigs
               /\ cache.sigs[block.id] = hash_block(block))
    /\ [][FanReturned /\ probe'.phase = "fan" => DOMAIN probe'.workers = {}]_vars

\* a repeated call has scanned the cache that two workers filled and found
\* nothing to compute
C21_Witness ==
    /\ probe # <<>> /\ probe.phase = "fan" /\ DOMAIN probe.workers = {}
    /\ \A i \in 1..2 : probe.reuse[i] # <<>> /\ editor.doc.blocks[i].dirty
    /\ DOMAIN cache.sigs = {1, 2}

\* C22: whatever the order in which the steps of the workers interleave, the
\* tree that layout_cached_parallel returns, with its blocks in document
\* order, and the cache it leaves are those of the workers run one after
\* the other.
C22_InterleavingIndependent ==
    FanReturned =>
       /\ tree = <<FanInOrder.tree>>
       /\ cache = FanInOrder.cache
       /\ LayoutIds(TreeBlocks(tree[1])) = BlockIds(editor.doc.blocks)

\* two workers under the glyph measurer have interleaved so that the shared
\* glyph cache ends in another state than in document order
C22_Witness ==
    /\ FanReturned
    /\ engine.real = "Fontdue"
    /\ DOMAIN probe.workers = {1, 2}
    /\ engine.glyph # FanInOrder.eng.glyph

\* the ids whose whole-block entry the step replaces or removes
Overwritten ==
    IF op'.name = "clear" THEN DOMAIN cache.blocks
    ELSE IF op'.name \in CachedOps THEN (DocIds \ op'.reused) \cap DOMAIN cache.blocks
    ELSE {}

\* C23: a step of the cache adds to the reuse pool at most the line buffers
\* of the entries it overwrites or clears that no returned tree refers to;
\* the entry of a block that a tree still holds is never recycled, and
\* clear() leaves the tree the client holds as it was.
C23_RecycleOnlySoleReference ==
    [][/\ cache'.line_pool <= cache.line_pool + Cardinality(Overwritten \ held)
       /\ op'.name = "clear" => tree' = tree]_vars

\* a layout_cached call has recomputed an edited block whose earlier entry
\* the tree of the call before still held, and nothing went to the pool
C23_Witness ==
    /\ op.name = "layout_cached" /\ warm.edited
    /\ DocIds \ op.reused # {}
    /\ held # {} /\ cache.line_pool = 0
    /\ tree # <<>>

\* C24: clear() leaves no whole-block entry, no signature and no list-item,
\* quote-item or table-row entry, and it adds to the reuse pool one line
\* buffer for each block that only the cache referred to.
C24_ClearEmptiesAndRecycles ==
    [][op'.name = "clear" =>
         /\ cache'.blocks = EmptyMap /\ cache'.sigs = EmptyMap
         /\ cache'.list_item_cache = EmptyMap /\ cache'.quote_item_cache = EmptyMap
         /\ cache'.table_row_cache = EmptyMap
         /\ \A block_id \in DocIds :
               \A which \in {"list_item_cache", "quote_item_cache", "table_row_cache"} :
                  \A idx \in 0..2 : \A sig \in {cache[which][k].sig : k \in DOMAIN cache[which]} :
                     get_item(cache', which, block_id, idx, sig) = <<>>
         /\ cache'.line_pool = cache.line_pool + Cardinality(DOMAIN cache.blocks \ held)]_vars

\* a cache that held blocks of a dropped tree, signatures and sub-item
\* entries has been cleared and its pool holds the recycled buffers
C24_Witness ==
    /\ op.name = "clear"
    /\ cache.line_pool >= 2
    /\ held = {}

\* the step is a call of layout or layout_cached
LayoutCall == op'.name \in {"layout", "layout_cached"}

\* whether the call about to be made runs the pre-warm
PrewarmRuns == engine.last_prewarm_version # editor.doc.version

\* the engine after the pre-warm of the document's characters, with the
\* document's version recorded
Prewarmed ==
    [engine EXCEPT !.glyph = prewarm_chars(engine.real, engine.glyph,
                                 collect_doc_chars(Docs, <<>>, <<>>), op'.config.metrics),
                   !.last_prewarm_version = editor.doc.version]

\* C25: a call of layout or layout_cached pre-warms the glyph cache with the
\* document's characters exactly if the document's version differs from the
\* version recorded at the last pre-warm, and records the version; so a call
\* that follows a call on the same version does not pre-warm.
C25_PrewarmOncePerVersion ==
    [][LayoutCall =>
         /\ engine'.last_prewarm_version = editor.doc.version
         /\ ~PrewarmRuns'
         /\ engine' = IF op'.name = "layout"
                      THEN layout(IF PrewarmRuns THEN Prewarmed ELSE engine,
                                  editor.doc, op'.config).eng
                      ELSE layout_cached(IF PrewarmRuns THEN Prewarmed ELSE engine,
                                         editor.doc, op'.config, cache, held).eng]_vars

\* under the glyph measurer a layout call has followed a layout_cached call
\* on version 1 of the document of ASCII text: its three characters were
\* looked up once, by the one pre-warm
C25_Witness ==
    /\ op.name = "layout" /\ cache.blocks # EmptyMap
    /\ engine.real = "Fontdue"
    /\ editor.doc.version = 1 /\ engine.last_prewarm_version = 1
    /\ engine.glyph.misses = 3 /\ engine.glyph.hits = 0

\* the distinct keys of the lookups made
LoggedKeys == {probe.log[n].key : n \in 1..Len(probe.log)}

\* C26: as long as the lookups made have no more distinct keys than the cold
\* tier holds, a lookup misses exactly if it is the first of its key, the
\* misses number the distinct keys, and hits plus misses is the number of
\* lookups.
C26_EachKeyMissesOnce ==
    Cardinality(LoggedKeys) <= SmallCold =>
       /\ \A n \in 1..Len(probe.log) :
             probe.log[n].miss <=> (\A m \in 1..(n - 1) : probe.log[m].key # probe.log[n].key)
       /\ probe.g.misses = Cardinality(LoggedKeys)
       /\ probe.g.hits + probe.g.misses = Len(probe.log)

\* five lookups of two keys: the promotion of the second key put the first
\* out of the hot tier, and the first then hit in the cold tier again
C26_Witness ==
    /\ Len(probe.log) = MaxLookups
    /\ probe.log[1].key = probe.log[2].key /\ probe.log[3].key = probe.log[4].key
    /\ probe.log[3].key # probe.log[1].key /\ probe.log[5].key = probe.log[1].key
    /\ probe.g.hits = 3 /\ probe.g.misses = 2
    /\ ~probe.log[5].miss

\* C27: the short-span break cache never holds more entries than its
\* capacity, ShortCacheLimit.
C27_ShortCacheWithinCapacity ==
    Cardinality(DOMAIN engine.break_cache_short) <= ShortCacheLimit

\* the dirty ids are more than 5% of the block count of the call
RatioExceeds ==
    /\ probe.call[1].total_blocks > 0
    /\ Cardinality(probe.rc.dirty_blocks) * 100 > 5 * probe.call[1].total_blocks

\* C28: when the dirty block ids are more than 0.05 of the total number of
\* blocks, should_render answers true for every block id, dirty or not.
C28_RenderAllAboveThreshold ==
    (probe.call # <<>> /\ RatioExceeds) => probe.call[1].result

\* with two of 39 blocks dirty, should_render was asked about a clean block
C28_Witness ==
    /\ probe.call # <<>> /\ RatioExceeds
    /\ probe.call[1].total_blocks = 39
    /\ Cardinality(probe.rc.dirty_blocks) = 2
    /\ probe.call[1].id \notin probe.rc.dirty_blocks
    /\ probe.call[1].result

\* the top of line j of block b of page p as hit_test accumulates it: the
\* pages above with their gaps, the margin, the lines above on the page and
\* half a font size after each block above
HitLineTop(p, b, j) ==
    LET c == probe.config
        page == probe.tree.pages[p]
        above == [k \in 1..(b - 1) |-> page.blocks[k].lines]
    IN  (p - 1) * (c.page_height * 100 + probe.page_gap) + c.margin * 100
        + (Len(Concat(above)) + j - 1) * c.metrics.font_size * c.metrics.line_height
        + (b - 1) * c.metrics.font_size * 5

\* the right edge of the character with index i of a line text
RECURSIVE HitEdge(_, _)
HitEdge(text, i) ==
    IF i = 0 THEN probe.config.margin * 100
    ELSE HitEdge(text, i - 1)
         + Measure(engine.real, GlyphCacheNew, <<text[i]>>, probe.config.metrics).w

\* the lines of the tree the pointer is inside of, as <<p, b, j>>
HitLinesAtPointer ==
    {l \in UNION {UNION {{<<p, b, j>> : j \in 1..Len(probe.tree.pages[p].blocks[b].lines)}
                           : b \in 1..Len(probe.tree.pages[p].blocks)}
                    : p \in 1..Len(probe.tree.pages)} :
       /\ probe.y > HitLineTop(l[1], l[2], l[3])
       /\ probe.y < HitLineTop(l[1], l[2], l[3])
                     + probe.config.metrics.font_size * probe.config.metrics.line_height}

\* C29: for a pointer inside a line, hit_test returns the id of the block
\* that owns the line and, as offset, the number of characters of the line
\* whose right edge is left of the pointer, between 0 and the character
\* count of the line.
C29_HitTestFindsLineAndOffset ==
    probe # <<>> =>
      \A l \in HitLinesAtPointer :
         LET lb == probe.tree.pages[l[1]].blocks[l[2]]
             text == lb.lines[l[3]].text
         IN  /\ probe.result # <<>>
             /\ probe.result[1].block_id = lb.block_id
             /\ probe.result[1].offset =
                   Cardinality({i \in 1..Len(text) : HitEdge(text, i) < probe.x})
             /\ probe.result[1].offset \in 0..Len(text)

\* C30: Document.version is monotonic: no Editor command, Undo included,
\* lowers the version of the editor's document.
C30_VersionNeverDecreases ==
    [][editor'.doc.version >= editor.doc.version]_vars

\* C31: when every command is followed by layout_cached with the same
\* cache and configuration and then clear_dirty, the tree of the last
\* layout_cached has the line texts and heights of layout on the current
\* document.
C31_TreeFreshAfterEveryCycle ==
    (op.name = "layout_cached" /\ warm.state = "pure")
    => View(tree[1]) = View(FreshLayout(op.config))

\* what C32 compares of a tree: per page its number and, per block, the id,
\* the kind, the lines with their widths and the height
FullView(t) ==
    [p \in 1..Len(t.pages) |->
       [number |-> t.pages[p].number,
        blocks |-> [k \in 1..Len(t.pages[p].blocks) |->
                      LET lb == t.pages[p].blocks[k] IN
                      [block_id |-> lb.block_id, kind |-> lb.kind,
                       lines |-> lb.lines, height |-> lb.height]]]]

\* C32: with the parallel paths enabled, layout and layout_cached on a cold
\* cache return the tree of the single-pass path: the same kinds, lines,
\* widths, heights and pages.
C32_ParallelEqualsSinglePass ==
    [][(/\ engine.parallel
        /\ op'.name = "layout" \/ (op'.name = "layout_cached" /\ warm.state = "cold"))
       => FullView(tree'[1])
          = FullView(layout(LayoutEngineNew(engine.real, FALSE), editor.doc,
                            op'.config).tree)]_vars

\* C33: the pages of a returned tree, concatenated, hold the document's
\* blocks in document order, each once; the pages are numbered 1, 2, ... and
\* the height of each page is the sum of the heights of its blocks.
C33_PagesPartitionTheDocument ==
    op.name \in {"layout", "layout_cached"} =>
      /\ LayoutIds(TreeBlocks(tree[1])) = BlockIds(Docs)
      /\ \A p \in 1..Len(tree[1].pages) :
            /\ tree[1].pages[p].number = p
            /\ tree[1].pages[p].height
                 = HeightSum(tree[1].pages[p].blocks, 1, Len(tree[1].pages[p].blocks))

\* C33 witness: layout_cached spreads four blocks over three pages, two of
\* them on one page
C33_Witness ==
    /\ op.name = "layout_cached" /\ op.config.paged
    /\ Len(Docs) = 4
    /\ Len(tree[1].pages) = 3
    /\ \E p \in 1..3 : Len(tree[1].pages[p].blocks) = 2 /\ tree[1].pages[p].height > 0

\* a block without its dirty flags
Content(b) == clear_dirty(<<b>>)[1]

\* C34: a command that changes the content of an existing block leaves the
\* dirty flag of that block set.  Undo, which is not among the commands of
\* the claim, is the only step that lengthens the redo stack.
C34_EditedBlockIsDirty ==
    [][Len(editor'.history.redo_stack) <= Len(editor.history.redo_stack)
       => \A i \in 1..Len(editor.doc.blocks) :
            (/\ i <= Len(editor'.doc.blocks)
             /\ editor'.doc.blocks[i].id = editor.doc.blocks[i].id
             /\ Content(editor'.doc.blocks[i]) # Content(editor.doc.blocks[i]))
            => editor'.doc.blocks[i].dirty]_vars

\* C35: an Undo that pops an entry, Snapshot or BlockChange, followed at
\* once by Redo leaves the blocks and the selection of the editor as they
\* were before the Undo.
C35_RedoRestoresWhatUndoChanged ==
    (probe.cmds = <<"Undo", "Redo">> /\ probe.tops[1] # "none")
    => /\ editor.doc.blocks = probe.eds[1].doc.blocks
       /\ editor.selection = probe.eds[1].selection

\* the patches the claim expects of a call on the blocks, given the
\* contents seen at the previous call
ExpectedPatches(seen, blocks) ==
    LET ids == {blocks[i].id : i \in 1..Len(blocks)}
        now(id) == Content(blocks[BlockPos(blocks, id)])
    IN  {[block_id |-> id, kind |-> "InsertBlock"] : id \in ids \ DOMAIN seen}
        \cup {[block_id |-> id, kind |-> "ReplaceBlock"] :
                id \in {k \in ids \cap DOMAIN seen : now(k) # seen[k]}}
        \cup {[block_id |-> id, kind |-> "RemoveBlock"] : id \in DOMAIN seen \ ids}

\* C36: incremental_diff reports, relative to the previous call, InsertBlock
\* for the new ids, ReplaceBlock for the blocks whose content changed,
\* RemoveBlock for the ids that left the document, and nothing else.
C36_DiffReportsExactlyTheChanges ==
    [][probe'.calls # probe.calls
       => probe'.patches = ExpectedPatches(probe.seen, editor.doc.blocks)]_vars

\* C37: the cache stores a signature only for ids that have a whole-block
\* entry, and the signature stored for an id is the one supplied together
\* with the block now stored for it.
C37_SignatureBelongsToStoredBlock ==
    \A id \in DOMAIN cache.sigs :
       /\ id \in DOMAIN cache.blocks
       /\ probe[id] = <<cache.sigs[id]>>

\* C38: every Line of a returned tree has the width the measurer gives
\* for its text under the FontMetrics of the call.
C38_LineWidthIsMeasuredWidth ==
    tree # <<>> =>
      \A k \in 1..Len(TreeBlocks(tree[1])) :
         \A l \in 1..Len(TreeBlocks(tree[1])[k].lines) :
            LET line == TreeBlocks(tree[1])[k].lines[l]
            IN  line.width
                = Measure(engine.real, GlyphCacheNew, line.text, op.config.metrics).w

\* the dirty ids are some but at most 5% of the block count of the call
RatioWithin ==
    /\ probe.call[1].total_blocks > 0
    /\ probe.rc.dirty_blocks # {}
    /\ Cardinality(probe.rc.dirty_blocks) * 100 <= 5 * probe.call[1].total_blocks

\* C39: should_render answers false exactly when the dirty ratio is above 0
\* and at most the threshold and the id is not marked dirty; so a dirty
\* block is always rendered, and every block is when none is dirty.
C39_SkipsOnlyCleanBlocksWithinThreshold ==
    probe.call # <<>> =>
      /\ ~probe.call[1].result
           <=> (RatioWithin /\ probe.call[1].id \notin probe.rc.dirty_blocks)
      /\ probe.call[1].id \in probe.rc.dirty_blocks => probe.call[1].result
      /\ probe.rc.dirty_blocks = {} => probe.call[1].result

\* C39 witness: with one of 20 blocks dirty, exactly 5%, should_render
\* answers false for a clean block
C39_Witness ==
    /\ probe.call # <<>>
    /\ probe.call[1].total_blocks = 20
    /\ Cardinality(probe.rc.dirty_blocks) = 1
    /\ probe.call[1].id \notin probe.rc.dirty_blocks
    /\ ~probe.call[1].result

\* C40: for every capacity GlyphCache::new computes its tier sizes without
\* unsigned underflow, and the hot and the cold tier hold at least 64
\* entries each.
C40_TierSizesWithoutUnderflow ==
    probe.made # <<>> =>
      /\ probe.made[1].kind = "cache"
      /\ probe.made[1].hot_cap >= GlyphTierMin
      /\ probe.made[1].cold_cap.kind = "value"
      /\ probe.made[1].cold_cap.n >= GlyphTierMin

====
